---- MODULE Spec2Model ----
(***************************************************************************)
(* A model of the sleepys_chess rules engine (src/sleepys_chess): the      *)
(* board, the attack generator, the legality checker, move application,   *)
(* the notation codecs and GameState's move processing and game-end       *)
(* evaluation.                                                             *)
(*                                                                         *)
(* Representation.  A square 'e4' is the pair <<5, 4>> (file index 1..8,  *)
(* rank 1..8); NoSquare stands for Python's None.  A string the code      *)
(* inspects character by character (a move token, a position notation)    *)
(* is a sequence of one-character strings.  A Piece is a record           *)
(* [type, colour]; NoPiece stands for an empty square (a key absent from  *)
(* Board.squares).                                                         *)
(***************************************************************************)
EXTENDS Integers, Sequences, FiniteSets, TLC

VARIABLES
    start,   \* index in Starts of the game being played
    game,    \* the GameState object (its fields, the Board's fields nested)
    engine,  \* the ChessEngine's checkpoint and expiry clock
    pc,      \* position of the driver loop: "move" (next input), "check"
             \* (the rest of the loop body), "failed" (construction raised)
    last,    \* the last call: token or command, its outcome, the Move made
    seen,    \* history: the positions that have occurred, the start included
    commands \* the number of undo and restart commands given

vars == <<start, game, engine, pc, last, seen, commands>>

----------------------------------------------------------------------------
(* pieces.py, board.py: constants                                          *)

FILES == <<"a", "b", "c", "d", "e", "f", "g", "h">>
RANKS == <<"1", "2", "3", "4", "5", "6", "7", "8">>
PIECE_TYPES == {"p", "N", "B", "R", "Q", "K"}
COLOURS == {"black", "white"}

NoSquare == <<0, 0>>
NoPiece == [type |-> "-", colour |-> "-"]
NoChar == ""

Squares == (1 .. Len(FILES)) \X (1 .. Len(RANKS))

Piece(type, colour) == [type |-> type, colour |-> colour]

\* a colour that is its own opposite
opposite_same(colour) == colour

\* utils.py opposite
opposite(colour) == IF colour = "black" THEN "white" ELSE "black"

OnBoard(f, r) == f \in 1 .. Len(FILES) /\ r \in 1 .. Len(RANKS)

\* `square in board` for the dict Board.squares
InBoard(squares, sq) == sq \in Squares /\ squares[sq] # NoPiece

Abs(n) == IF n < 0 THEN -n ELSE n

is_friendly(target, piece, squares) ==
    InBoard(squares, target) /\ squares[target].colour = piece.colour

----------------------------------------------------------------------------
(* board.py: the attack generator.  The code returns lists; only           *)
(* membership is ever used, so the lists are modelled as sets.             *)

find_pawn_attacks(sq, colour) ==
    IF sq[2] = 8 \/ sq[2] = 1
    THEN {}
    ELSE LET attack_rank == IF colour = "white" THEN sq[2] + 1 ELSE sq[2] - 1
         IN  {<<sq[1] + d, attack_rank>> : d \in {dd \in {-1, 1} : sq[1] + dd \in 1 .. Len(FILES)}}

find_knight_attacks(sq) ==
    {<<sq[1] + f, sq[2] + r>> : <<f, r>> \in
        {o \in (-2 .. 2) \X (-2 .. 2) :
            /\ Abs(o[1]) # Abs(o[2])
            /\ OnBoard(sq[1] + o[1], sq[2] + o[2])
            /\ {Abs(o[1]), Abs(o[2])} = {1, 2}}}

\* one ray of find_bishop_attacks / find_rook_attacks: every square up to and
\* including the first occupied one
RECURSIVE Ray(_, _, _, _, _)
Ray(squares, sq, fstep, rstep, offset) ==
    LET target == <<sq[1] + fstep * offset, sq[2] + rstep * offset>>
    IN  IF ~OnBoard(target[1], target[2])
        THEN {}
        ELSE IF squares[target] # NoPiece
             THEN {target}
             ELSE {target} \cup Ray(squares, sq, fstep, rstep, offset + 1)

find_bishop_attacks(sq, squares) ==
    UNION {Ray(squares, sq, d[1], d[2], 1) : d \in {-1, 1} \X {-1, 1}}

find_rook_attacks(sq, squares) ==
    UNION {Ray(squares, sq, d[1], d[2], 1) :
             d \in {o \in (-1 .. 1) \X (-1 .. 1) : (o[1] = 0) # (o[2] = 0)}}

find_king_attacks(sq) ==
    {<<sq[1] + o[1], sq[2] + o[2]>> : o \in
        {o \in (-1 .. 1) \X (-1 .. 1) :
            /\ ~(o[1] = 0 /\ o[2] = 0)
            /\ OnBoard(sq[1] + o[1], sq[2] + o[2])}}

find_attacker(attacks, types, squares, opponent) ==
    \E attack \in attacks :
        /\ InBoard(squares, attack)
        /\ squares[attack].colour = opponent
        /\ squares[attack].type \in types

possible_destinations(piece, square, squares, attacks_only) ==
    LET colour == piece.colour
        sign == IF colour = "white" THEN 1 ELSE -1
    IN  CASE piece.type = "p" ->
               find_pawn_attacks(square, piece.colour)
               \cup (IF attacks_only THEN {}
                     ELSE {<<square[1], square[2] + sign>>}
                          \cup (IF square[2] = (IF colour = "black" THEN 7 ELSE 2)
                                THEN {<<square[1], square[2] + 2 * sign>>}
                                ELSE {}))
          [] piece.type = "N" -> find_knight_attacks(square)
          [] piece.type = "B" -> find_bishop_attacks(square, squares)
          [] piece.type = "R" -> find_rook_attacks(square, squares)
          [] piece.type = "Q" -> find_bishop_attacks(square, squares)
                                 \cup find_rook_attacks(square, squares)
          [] piece.type = "K" ->
               find_king_attacks(square)
               \cup (IF square = (IF colour = "white" THEN <<5, 1>> ELSE <<5, 8>>)
                        /\ ~attacks_only
                     THEN {<<7, square[2]>>, <<3, square[2]>>}
                     ELSE {})
          [] OTHER -> {}

----------------------------------------------------------------------------
(* gamerules.py: square_is_attacked; `colour` is the defending colour.     *)

square_is_attacked(square, squares, colour) ==
    LET opp_colour == opposite(colour)
    IN  \/ find_attacker(find_pawn_attacks(square, colour), {"p", "B", "Q", "K"},
                         squares, opp_colour)
        \/ find_attacker(find_knight_attacks(square), {"N"}, squares, opp_colour)
        \/ find_attacker(find_bishop_attacks(square, squares), {"B", "Q"},
                         squares, opp_colour)
        \/ find_attacker(find_rook_attacks(square, squares), {"R", "Q"},
                         squares, opp_colour)
        \/ find_attacker(find_king_attacks(square), {"K"}, squares, opp_colour)

----------------------------------------------------------------------------
(* moverules.py: shape and path rules.  is_pawn_move returns None (falsy)  *)
(* when the rank step is neither one nor two forward.                      *)

\* a pawn rule without the two-square advance
is_pawn_move_single(origin, destination, squares, colour) ==
    /\ destination[2] - origin[2] = (IF colour = "white" THEN 1 ELSE -1)
    /\ ~InBoard(squares, destination)

is_pawn_move(origin, destination, squares, colour) ==
    LET rank_steps == destination[2] - origin[2]
        factor == IF colour = "white" THEN 1 ELSE -1
    IN  IF rank_steps = 2 * factor
        THEN /\ \A i \in {1, 2} : ~InBoard(squares, <<origin[1], origin[2] + i * factor>>)
             /\ origin[2] = (IF colour = "white" THEN 2 ELSE 7)
        ELSE IF rank_steps = factor
             THEN ~InBoard(squares, destination)
             ELSE FALSE

is_knight_move(origin, destination) ==
    {Abs(origin[1] - destination[1]), Abs(origin[2] - destination[2])} = {1, 2}

is_bishop_move(origin, destination, squares) ==
    LET rank_steps == destination[2] - origin[2]
        file_steps == destination[1] - origin[1]
        rsign == IF rank_steps > 0 THEN 1 ELSE -1
        fsign == IF file_steps > 0 THEN 1 ELSE -1
    IN  /\ Abs(rank_steps) = Abs(file_steps)
        /\ \A step \in 1 .. (Abs(file_steps) - 1) :
              ~InBoard(squares, <<origin[1] + fsign * step, origin[2] + rsign * step>>)

is_rook_move(origin, destination, squares) ==
    LET rank_steps == destination[2] - origin[2]
        file_steps == destination[1] - origin[1]
        steps == IF rank_steps # 0 THEN rank_steps ELSE file_steps
        sign == IF steps > 0 THEN 1 ELSE -1
    IN  /\ (rank_steps = 0) # (file_steps = 0)
        /\ \A step \in 1 .. (Abs(steps) - 1) :
              ~InBoard(squares,
                       <<IF file_steps # 0 THEN origin[1] + step * sign ELSE origin[1],
                         IF rank_steps # 0 THEN origin[2] + step * sign ELSE origin[2]>>)

----------------------------------------------------------------------------
(* moves.py: the Move value.  special is "" (None), "en passant",          *)
(* "castling" or "promotion".                                              *)

Move(origin, destination, piece) ==
    [origin |-> origin, destination |-> destination, piece |-> piece,
     special |-> "", promote |-> NoChar, is_capture |-> FALSE,
     check_str |-> "", disambiguation |-> NoChar]

NoMove == Move(NoSquare, NoSquare, NoPiece)

CastleKeys == {"white_kingside", "white_queenside", "black_kingside", "black_queenside"}

CastleKey(colour, side) ==
    IF colour = "white"
    THEN (IF side = "kingside" THEN "white_kingside" ELSE "white_queenside")
    ELSE (IF side = "kingside" THEN "black_kingside" ELSE "black_queenside")

KingPos(board, colour) ==
    IF colour = "black" THEN board.black_king_pos ELSE board.white_king_pos

----------------------------------------------------------------------------
(* gamerules.py: GameState.make_move                                       *)

\* the pawn an en-passant capture removes (make_move lines 205-208)
PassantVictim(g) ==
    LET t == g.board.en_passant_target
    IN  <<t[1], IF g.turn = "black" THEN t[2] + 1 ELSE t[2] - 1>>

RookOrigin(move, back_rank) ==
    IF move.destination[1] = 3 THEN <<1, back_rank>> ELSE <<8, back_rank>>

RookDestination(move, back_rank) ==
    IF move.destination[1] = 3 THEN <<4, back_rank>> ELSE <<6, back_rank>>

\* `del self.board[...]` raises KeyError on an empty square
MakeMoveRaises(g, move) ==
    LET squares == g.board.squares
        piece == squares[move.origin]
        back_rank == IF piece.colour = "white" THEN 1 ELSE 8
    IN  \/ piece = NoPiece
        \/ move.special = "en passant" /\ ~InBoard(squares, PassantVictim(g))
        \/ move.special = "castling" /\ ~InBoard(squares, RookOrigin(move, back_rank))

\* a rook leaving its home square switches that side's right on
RookMoveRights_regained(can_castle, piece, move, back_rank) ==
    [can_castle EXCEPT ![CastleKey(piece.colour, IF move.origin[1] = 1 THEN "queenside"
                                                 ELSE "kingside")] = TRUE]

\* line 230 compares (==) instead of assigning: a rook leaving its home
\* square leaves the rights as they are
RookMoveRights(can_castle, piece, move, back_rank) ==
    can_castle

KingMoveRights_kingside(can_castle, piece) ==
    [can_castle EXCEPT ![CastleKey(piece.colour, "kingside")] = FALSE]

\* lines 231-233: a king that moves loses both rights of its colour
KingMoveRights(can_castle, piece) ==
    [can_castle EXCEPT ![CastleKey(piece.colour, "kingside")] = FALSE,
                       ![CastleKey(piece.colour, "queenside")] = FALSE]

make_move(g, move) ==
    LET squares == g.board.squares
        piece0 == squares[move.origin]
        back_rank == IF piece0.colour = "white" THEN 1 ELSE 8
        squares1 ==
            IF move.special = "en passant"
            THEN [squares EXCEPT ![PassantVictim(g)] = NoPiece]
            ELSE IF move.special = "castling"
                 THEN [squares EXCEPT ![RookOrigin(move, back_rank)] = NoPiece,
                                      ![RookDestination(move, back_rank)] =
                                          squares[RookOrigin(move, back_rank)]]
                 ELSE squares
        piece == IF move.special = "promotion"
                 THEN Piece(move.promote, piece0.colour)
                 ELSE piece0
        squares2 == [squares1 EXCEPT ![move.destination] = piece, ![move.origin] = NoPiece]
        rights1 == IF piece.type = "R"
                      /\ move.origin \in {<<1, back_rank>>, <<8, back_rank>>}
                   THEN RookMoveRights(g.can_castle, piece, move, back_rank)
                   ELSE g.can_castle
        rights2 == IF piece.type = "K"
                   THEN KingMoveRights(rights1, piece)
                   ELSE rights1
        last_turn == g.turn
    IN  [g EXCEPT
            !.board = [@ EXCEPT
                !.squares = squares2,
                !.white_king_pos =
                    IF piece.type = "K" /\ last_turn = "white" THEN move.destination ELSE @,
                !.black_king_pos =
                    IF piece.type = "K" /\ last_turn = "black" THEN move.destination ELSE @],
            !.can_castle = rights2,
            !.turn = opposite(g.turn)]

\* copy.deepcopy(game).make_move(move): the caller's state is not touched
simulate_move(move, g) == make_move(g, move)

square_remains_safe(square, move, g, colour) ==
    ~square_is_attacked(square, simulate_move(move, g).board.squares, colour)

----------------------------------------------------------------------------
(* gamerules.py: castling preconditions and is_legal_move                  *)

area_is_safe(area, g) ==
    ~\E square \in area : square_is_attacked(square, g.board.squares, g.turn)

area_is_empty(area, g) ==
    ~\E square \in area : InBoard(g.board.squares, square)

can_castle_kingside(piece, g) ==
    LET r == IF piece.colour = "white" THEN 1 ELSE 8
    IN  /\ g.can_castle[CastleKey(piece.colour, "kingside")]
        /\ area_is_empty({<<6, r>>, <<7, r>>}, g)
        /\ area_is_safe({<<5, r>>, <<6, r>>, <<7, r>>}, g)

\* can_castle_queenside without the test of the rights flag
can_castle_queenside_unflagged(piece, g) ==
    LET r == IF piece.colour = "white" THEN 1 ELSE 8
    IN  /\ area_is_empty({<<4, r>>, <<3, r>>}, g)
        /\ area_is_safe({<<5, r>>, <<4, r>>, <<3, r>>}, g)

can_castle_queenside(piece, g) ==
    LET r == IF piece.colour = "white" THEN 1 ELSE 8
    IN  /\ g.can_castle[CastleKey(piece.colour, "queenside")]
        /\ area_is_empty({<<4, r>>, <<3, r>>}, g)
        /\ area_is_safe({<<5, r>>, <<4, r>>, <<3, r>>}, g)

\* precondition: ~MakeMoveRaises(g, move) (is_legal_move simulates first)
is_legal_move(move, g) ==
    LET squares == g.board.squares
        piece == squares[move.origin]
        king_pos == IF move.piece.type = "K"
                    THEN move.destination
                    ELSE KingPos(g.board, piece.colour)
        king_is_safe == square_remains_safe(king_pos, move, g, piece.colour)
        opp_colour == opposite(move.piece.colour)
        rank_steps == move.destination[2] - move.origin[2]
        file_steps == move.destination[1] - move.origin[1]
        factor == IF piece.colour = "white" THEN 1 ELSE -1
    IN  IF ~king_is_safe \/ is_friendly(move.destination, piece, squares)
           \/ piece # move.piece
        THEN FALSE
        ELSE IF ~InBoard(squares, move.origin)
                \/ squares[move.origin].colour # move.piece.colour
        THEN FALSE
        ELSE CASE piece.type = "p" ->
                   IF Abs(file_steps) > 1
                   THEN FALSE
                   ELSE IF Abs(file_steps) = 1 /\ rank_steps = factor
                        THEN IF InBoard(squares, move.destination)
                             THEN squares[move.destination].colour = opp_colour
                             ELSE move.destination = g.board.en_passant_target
                        ELSE is_pawn_move(move.origin, move.destination, squares,
                                          piece.colour)
               [] piece.type = "N" -> is_knight_move(move.origin, move.destination)
               [] piece.type = "B" -> is_bishop_move(move.origin, move.destination, squares)
               [] piece.type = "R" -> is_rook_move(move.origin, move.destination, squares)
               [] piece.type = "Q" ->
                   \/ is_bishop_move(move.origin, move.destination, squares)
                   \/ is_rook_move(move.origin, move.destination, squares)
               [] piece.type = "K" ->
                   IF move.special = "castling"
                   THEN \/ /\ can_castle_kingside(piece, g)
                           /\ move.destination = <<7, move.origin[2]>>
                        \/ /\ can_castle_queenside(piece, g)
                           /\ move.destination = <<3, move.origin[2]>>
                   ELSE /\ LET v1 == Abs(move.origin[1] - move.destination[1])
                               v2 == Abs(move.origin[2] - move.destination[2])
                           IN  (IF v1 > v2 THEN v1 ELSE v2) = 1 /\ v1 + v2 > 0
                        /\ square_remains_safe(move.destination, move, g, move.piece.colour)
               [] OTHER -> FALSE

----------------------------------------------------------------------------
(* parsing.py: parse_move.  The four token patterns are matched with       *)
(* re.IGNORECASE (process_player_move passes the flag); the groups are     *)
(* then normalised: origin, capture and destination to lower case, piece,  *)
(* promotion and side to upper case.                                       *)

LOWER == <<"a", "b", "c", "d", "e", "f", "g", "h", "k", "n", "o", "p", "q", "r", "x">>
UPPER == <<"A", "B", "C", "D", "E", "F", "G", "H", "K", "N", "O", "P", "Q", "R", "X">>

Lower(c) == IF \E i \in 1 .. Len(UPPER) : UPPER[i] = c
            THEN LOWER[CHOOSE i \in 1 .. Len(UPPER) : UPPER[i] = c]
            ELSE c

Upper(c) == IF \E i \in 1 .. Len(LOWER) : LOWER[i] = c
            THEN UPPER[CHOOSE i \in 1 .. Len(LOWER) : LOWER[i] = c]
            ELSE c

IsFileChar(c) == \E i \in 1 .. Len(FILES) : FILES[i] = Lower(c)
IsRankChar(c) == \E i \in 1 .. Len(RANKS) : RANKS[i] = c

FileIndex(c) == CHOOSE i \in 1 .. Len(FILES) : FILES[i] = Lower(c)
RankIndex(c) == CHOOSE i \in 1 .. Len(RANKS) : RANKS[i] = c

\* the square a two-character coordinate names
SquareOf(f, r) == <<FileIndex(f), RankIndex(r)>>

\* the token without its optional trailing check marker, (\+|#)?$
TokenBody(token) ==
    IF Len(token) > 0 /\ token[Len(token)] \in {"+", "#"}
    THEN SubSeq(token, 1, Len(token) - 1)
    ELSE token

TokenCheck(token) ==
    IF Len(token) > 0 /\ token[Len(token)] \in {"+", "#"}
    THEN token[Len(token)]
    ELSE NoChar

MoveData(type, token) ==
    [type |-> type, origin |-> NoChar, capture |-> FALSE, destination |-> NoSquare,
     promotion |-> NoChar, piece |-> NoChar, side |-> "", check |-> TokenCheck(token)]

\* a pawn grammar whose destination may lie on any rank
MatchPawn_anyrank(token) ==
    LET b == TokenBody(token)
        md == MoveData("pawn", token)
    IN  IF Len(b) = 2 /\ IsFileChar(b[1]) /\ IsRankChar(b[2])
        THEN <<[md EXCEPT !.destination = SquareOf(b[1], b[2])]>>
        ELSE IF /\ Len(b) = 4 /\ IsFileChar(b[1]) /\ Lower(b[2]) = "x"
                /\ IsFileChar(b[3]) /\ IsRankChar(b[4])
        THEN <<[md EXCEPT !.origin = Lower(b[1]), !.capture = TRUE,
                          !.destination = SquareOf(b[3], b[4])]>>
        ELSE <<>>

\* ^((?P<origin>[a-h])(?P<capture>x))?(?P<destination>[a-h][2-7])(?P<check>\+|#)?$
MatchPawn(token) ==
    LET b == TokenBody(token)
        md == MoveData("pawn", token)
    IN  IF Len(b) = 2 /\ IsFileChar(b[1]) /\ b[2] \in {"2", "3", "4", "5", "6", "7"}
        THEN <<[md EXCEPT !.destination = SquareOf(b[1], b[2])]>>
        ELSE IF /\ Len(b) = 4 /\ IsFileChar(b[1]) /\ Lower(b[2]) = "x"
                /\ IsFileChar(b[3]) /\ b[4] \in {"2", "3", "4", "5", "6", "7"}
        THEN <<[md EXCEPT !.origin = Lower(b[1]), !.capture = TRUE,
                          !.destination = SquareOf(b[3], b[4])]>>
        ELSE <<>>

\* ^((?P<origin>[a-h])(?P<capture>x))?(?P<destination>[a-h][18])(=(?P<promotion>[NBRQ]))(?P<check>\+|#)?$
MatchPromotion(token) ==
    LET b == TokenBody(token)
        md == MoveData("promotion", token)
    IN  IF /\ Len(b) = 4 /\ IsFileChar(b[1]) /\ b[2] \in {"1", "8"}
           /\ b[3] = "=" /\ Upper(b[4]) \in {"N", "B", "R", "Q"}
        THEN <<[md EXCEPT !.destination = SquareOf(b[1], b[2]),
                          !.promotion = Upper(b[4])]>>
        ELSE IF /\ Len(b) = 6 /\ IsFileChar(b[1]) /\ Lower(b[2]) = "x"
                /\ IsFileChar(b[3]) /\ b[4] \in {"1", "8"}
                /\ b[5] = "=" /\ Upper(b[6]) \in {"N", "B", "R", "Q"}
        THEN <<[md EXCEPT !.origin = Lower(b[1]), !.capture = TRUE,
                          !.destination = SquareOf(b[3], b[4]),
                          !.promotion = Upper(b[6])]>>
        ELSE <<>>

\* ^(?P<piece>[NBRQK])(?P<origin>[a-h1-8])?(?P<capture>x)?(?P<destination>[a-h][1-8])(?P<check>\+|#)?$
MatchPiece(token) ==
    LET b == TokenBody(token)
        md == MoveData("piece", token)
        n == Len(b)
    IN  IF /\ n \in {3, 4, 5}
           /\ Upper(b[1]) \in {"N", "B", "R", "Q", "K"}
           /\ IsFileChar(b[n - 1]) /\ IsRankChar(b[n])
           /\ n = 4 => (IsFileChar(b[2]) \/ IsRankChar(b[2]) \/ Lower(b[2]) = "x")
           /\ n = 5 => ((IsFileChar(b[2]) \/ IsRankChar(b[2])) /\ Lower(b[3]) = "x")
        THEN <<[md EXCEPT !.piece = Upper(b[1]),
                          !.origin = IF n >= 4 /\ Lower(b[2]) # "x" THEN Lower(b[2]) ELSE NoChar,
                          !.capture = n >= 4 /\ Lower(b[n - 2]) = "x",
                          !.destination = SquareOf(b[n - 1], b[n])]>>
        ELSE <<>>

\* ^(?P<side>O-O(-O)?)(?P<check>\+|#)?$
MatchCastling(token) ==
    LET b == TokenBody(token)
        md == MoveData("castling", token)
        up == [i \in 1 .. Len(b) |-> Upper(b[i])]
    IN  IF up = <<"O", "-", "O">>
        THEN <<[md EXCEPT !.side = "O-O"]>>
        ELSE IF up = <<"O", "-", "O", "-", "O">>
        THEN <<[md EXCEPT !.side = "O-O-O"]>>
        ELSE <<>>

\* every grammar the token matches, in the order of token_patterns; the
\* code raises ValueError on none, returns the dict on one, the list on more
parse_move(token) ==
    MatchPawn(token) \o MatchPromotion(token) \o MatchPiece(token) \o MatchCastling(token)

----------------------------------------------------------------------------
(* gamerules.py: validate_move.  A result is a record: kind "move" (a      *)
(* Move), "none" (None), "conflict" (the unresolved origin set) or "raise" *)
(* (an exception escaped).  passant is the value validate_move assigns to  *)
(* the attribute game.en_passant_target (line 512), NoSquare when it       *)
(* assigns nothing.  The operator yields the SET of possible results: the  *)
(* loop of lines 555-558 iterates a Python set, whose order is arbitrary.  *)

Result(kind, move) ==
    [kind |-> kind, move |-> move, conflict |-> {}, passant |-> NoSquare]

\* the Move when it is legal, None when it is not, the exception when the
\* speculative make_move raises
Judge(move, guard, g) ==
    IF ~guard THEN Result("none", NoMove)
    ELSE IF MakeMoveRaises(g, move) THEN Result("raise", NoMove)
    ELSE IF is_legal_move(move, g) THEN Result("move", move)
    ELSE Result("none", NoMove)

\* the origin rank with the pawn on its starting rank preferred
PawnOriginRank_far(squares, origin_file, dest_rank, sign, double_rank, player) ==
    LET has(r) == InBoard(squares, <<origin_file, r>>)
                  /\ squares[<<origin_file, r>>] = Piece("p", player)
        far == dest_rank - 2 * sign
        near == dest_rank - sign
    IN  IF dest_rank # double_rank THEN near
        ELSE IF has(far) THEN far
        ELSE IF has(near) THEN near
        ELSE 0

\* lines 482-496: the origin rank of a pawn move to the double-step rank;
\* 0 when no pawn of the player stands on either candidate square
PawnOriginRank(squares, origin_file, dest_rank, sign, double_rank, player) ==
    LET has(r) == InBoard(squares, <<origin_file, r>>)
                  /\ squares[<<origin_file, r>>] = Piece("p", player)
        far == dest_rank - 2 * sign
        near == dest_rank - sign
    IN  IF dest_rank # double_rank THEN near
        ELSE IF has(far) /\ has(near)
             THEN (IF Abs(double_rank - far) < Abs(double_rank - near) THEN far ELSE near)
        ELSE IF has(far) THEN far
        ELSE IF has(near) THEN near
        ELSE 0

ValidatePawn(md, g, player, is_capture) ==
    LET squares == g.board.squares
        destination == md.destination
        sign == IF player = "white" THEN 1 ELSE -1
        origin_file == IF md.capture THEN FileIndex(md.origin) ELSE destination[1]
        double_rank == IF player = "white" THEN 4 ELSE 5
        origin_rank == PawnOriginRank(squares, origin_file, destination[2], sign,
                                      double_rank, player)
        pawn_origin == <<origin_file, origin_rank>>
        pawn == IF pawn_origin \in Squares THEN squares[pawn_origin] ELSE NoPiece
        is_double == Abs(origin_rank - destination[2]) = 2
        is_en_passant == destination = g.board.en_passant_target
        move == [Move(pawn_origin, destination, pawn) EXCEPT
                    !.is_capture = is_en_passant \/ is_capture,
                    !.special = IF is_en_passant THEN "en passant" ELSE ""]
        res == Judge(move, pawn = Piece("p", player), g)
    IN  IF origin_rank = 0
        THEN {Result("none", NoMove)}
        ELSE {IF res.kind = "move" /\ is_double
              THEN [res EXCEPT !.passant = <<destination[1], destination[2] - sign>>]
              ELSE res}

ValidatePromotion(md, g, player, is_capture) ==
    LET squares == g.board.squares
        destination == md.destination
        origin_rank == IF player = "white" THEN 7 ELSE 2
        origin_file == IF md.capture THEN FileIndex(md.origin) ELSE destination[1]
        pawn_origin == <<origin_file, origin_rank>>
        pawn == squares[pawn_origin]
        move == [Move(pawn_origin, destination, pawn) EXCEPT
                    !.is_capture = is_capture,
                    !.special = "promotion",
                    !.promote = md.promotion]
    IN  {Judge(move, pawn = Piece("p", player), g)}

\* `origin_hint in square`: the hint is a file letter or a rank digit
HintMatches(hint, square) ==
    hint # NoChar /\ (FILES[square[1]] = hint \/ RANKS[square[2]] = hint)

ValidatePiece(md, g, player, is_capture) ==
    LET squares == g.board.squares
        destination == md.destination
        piece == Piece(md.piece, player)
        search_squares == possible_destinations(piece, destination, squares, TRUE)
        origin == {square \in search_squares :
                      InBoard(squares, square) /\ squares[square] = piece}
        hinted == {square \in origin : HintMatches(md.origin, square)}
        chosen == IF Cardinality(origin) > 1 THEN hinted ELSE origin
        MoveFrom(o) == [Move(o, destination, piece) EXCEPT
                           !.disambiguation = md.origin,
                           !.is_capture = is_capture]
    IN  IF origin = {}
        THEN {Result("none", NoMove)}
        ELSE IF chosen = {}
        THEN {[Result("conflict", NoMove) EXCEPT !.conflict = origin]}
        ELSE {Judge(MoveFrom(o), TRUE, g) : o \in chosen}

ValidateCastling(md, g, player) ==
    LET origin == IF player = "white" THEN <<5, 1>> ELSE <<5, 8>>
        king == g.board.squares[origin]
        file == IF md.side = "O-O" THEN 7 ELSE 3
        destination == <<file, origin[2]>>
        move == [Move(origin, destination, king) EXCEPT !.special = "castling"]
    IN  {Judge(move, king = Piece("K", player), g)}

validate_move(md, g, player) ==
    LET squares == g.board.squares
        has_details == md.type # "castling"   \* 'destination', 'capture' in move_details
        destination == md.destination
        is_capture ==
            /\ has_details
            /\ \/ (destination = g.board.en_passant_target /\ md.type = "pawn")
               \/ InBoard(squares, destination)
    IN  IF is_capture /\ has_details /\ ~md.capture
        THEN {Result("none", NoMove)}
        ELSE IF ~is_capture /\ has_details /\ md.capture
        THEN {Result("none", NoMove)}
        ELSE CASE md.type = "pawn" -> ValidatePawn(md, g, player, is_capture)
               [] md.type = "promotion" -> ValidatePromotion(md, g, player, is_capture)
               [] md.type = "piece" -> ValidatePiece(md, g, player, is_capture)
               [] md.type = "castling" -> ValidateCastling(md, g, player)

----------------------------------------------------------------------------
(* board.py / gamerules.py: the position notation codec                    *)

DIGITS == <<"0", "1", "2", "3", "4", "5", "6", "7", "8", "9">>

IsDigit(c) == \E i \in 1 .. Len(DIGITS) : DIGITS[i] = c
DigitValue(c) == (CHOOSE i \in 1 .. Len(DIGITS) : DIGITS[i] = c) - 1
IsUpperChar(c) == \E i \in 1 .. Len(UPPER) : UPPER[i] = c

\* f'{n}' for a natural number
RECURSIVE IntToStr(_)
IntToStr(n) ==
    IF n < Len(DIGITS)
    THEN <<DIGITS[n + 1]>>
    ELSE IntToStr(n \div Len(DIGITS)) \o <<DIGITS[(n % Len(DIGITS)) + 1]>>

\* int(s) for a string of digits
RECURSIVE StrToInt(_)
StrToInt(s) ==
    IF s = <<>> THEN 0
    ELSE StrToInt(SubSeq(s, 1, Len(s) - 1)) * Len(DIGITS) + DigitValue(s[Len(s)])

\* str.split(): the whitespace-separated fields
IsSpace(c) == c \in {" ", "\n", "\t"}

\* (the end n of the first field and the rest of the string are bound, so
\* that each is worked out once)
RECURSIVE Split(_)
Split(s) ==
    IF s = <<>> THEN <<>>
    ELSE IF IsSpace(Head(s)) THEN Split(Tail(s))
    ELSE CHOOSE fields \in
             UNION {{<<SubSeq(s, 1, n)>> \o Split(rest) :
                        rest \in {SubSeq(s, n + 1, Len(s))}} :
                    n \in {k \in 1 .. Len(s) :
                              /\ \A j \in 1 .. k : ~IsSpace(s[j])
                              /\ (k = Len(s) \/ IsSpace(s[k + 1]))}} : TRUE

\* an encoder that writes every piece in upper case
PieceChar_upper(piece) == Upper(piece.type)

\* to_fen[colour](piece.type)
PieceChar(piece) ==
    IF piece.colour = "white" THEN Upper(piece.type) ELSE Lower(piece.type)

\* board_to_fen, one rank from file index f on
RECURSIVE RankToFen(_, _, _, _)
RankToFen(squares, rank, f, space_counter) ==
    IF f > Len(FILES) THEN <<>>
    ELSE IF squares[<<f, rank>>] = NoPiece
    THEN (IF f = Len(FILES) /\ space_counter + 1 # 0
          THEN IntToStr(space_counter + 1) ELSE <<>>)
         \o RankToFen(squares, rank, f + 1, space_counter + 1)
    ELSE (IF space_counter # 0 THEN IntToStr(space_counter) ELSE <<>>)
         \o <<PieceChar(squares[<<f, rank>>])>>
         \o RankToFen(squares, rank, f + 1, 0)

RECURSIVE RanksToFen(_, _)
RanksToFen(squares, rank) ==
    RankToFen(squares, rank, 1, 0)
    \o (IF rank = 1 THEN <<>> ELSE <<"/">> \o RanksToFen(squares, rank - 1))

board_to_fen(squares) == RanksToFen(squares, Len(RANKS))

SquareStr(sq) == <<FILES[sq[1]], RANKS[sq[2]]>>

generate_fen(g) ==
    LET fen_castling ==
            (IF g.can_castle["white_kingside"] THEN <<"K">> ELSE <<>>)
            \o (IF g.can_castle["white_queenside"] THEN <<"Q">> ELSE <<>>)
            \o (IF g.can_castle["black_kingside"] THEN <<"k">> ELSE <<>>)
            \o (IF g.can_castle["black_queenside"] THEN <<"q">> ELSE <<>>)
    IN  board_to_fen(g.board.squares)
        \o <<" ", IF g.turn = "white" THEN "w" ELSE "b", " ">>
        \o (IF fen_castling = <<>> THEN <<"-">> ELSE fen_castling)
        \o <<" ">>
        \o (IF g.board.en_passant_target # NoSquare
            THEN SquareStr(g.board.en_passant_target) ELSE <<"-">>)
        \o <<" ">> \o IntToStr(g.halfmove_clock)
        \o <<" ">> \o IntToStr(g.fullmoves)

\* snapshot[:-4]: the notation without its last four characters
PositionKey(fen) == SubSeq(fen, 1, Len(fen) - 4)

\* Board.fen_to_board from character i on.  The squares already on the board
\* are kept: only the squares the placement names are written.
\* Precondition: the placement names at most eight files on each of at most
\* eight ranks (FILES[findex] is defined).
RECURSIVE FenToBoardFrom(_, _, _, _, _)
FenToBoardFrom(board, chars, i, rank, findex) ==
    IF i > Len(chars) THEN board
    ELSE LET char == chars[i]
             pos == <<findex + 1, rank>>
             type == IF Lower(char) = "p" THEN "p"
                     ELSE IF Upper(char) \in PIECE_TYPES THEN Upper(char)
                     ELSE "-"
             colour == IF IsUpperChar(char) THEN "white" ELSE "black"
             placed == [board EXCEPT
                          !.black_king_pos = IF char = "k" THEN pos ELSE @,
                          !.white_king_pos = IF char = "K" THEN pos ELSE @,
                          !.squares = IF type = "-" THEN @
                                      ELSE [@ EXCEPT ![pos] = Piece(type, colour)]]
         IN  IF char = "/" THEN FenToBoardFrom(board, chars, i + 1, rank - 1, 0)
             ELSE IF IsDigit(char)
             THEN FenToBoardFrom(board, chars, i + 1, rank, findex + DigitValue(char))
             ELSE FenToBoardFrom(placed, chars, i + 1, rank, findex + 1)

fen_to_board(board, chars) == FenToBoardFrom(board, chars, 1, 8, 0)

\* Board.__init__
NewBoard ==
    [squares |-> [sq \in Squares |-> NoPiece],
     white_king_pos |-> <<5, 1>>,
     black_king_pos |-> <<5, 8>>,
     en_passant_target |-> NoSquare]

\* GameState.__init__ before it loads a position.  en_passant_target is the
\* attribute validate_move creates on the GameState (line 512); the field
\* the rules read is board.en_passant_target.
NewGameState ==
    [board |-> NewBoard,
     turn |-> "white",
     can_castle |-> [k \in CastleKeys |-> TRUE],
     in_check |-> [c \in COLOURS |-> FALSE],
     is_end |-> FALSE,
     end_state |-> "None",
     winner |-> "None",
     move_history |-> <<>>,
     position_history |-> <<>>,
     position_count |-> <<>>,
     halfmove_clock |-> 0,
     fullmoves |-> 0,
     en_passant_target |-> NoSquare]

CastleLetter(key) ==
    CASE key = "white_kingside" -> "K"
      [] key = "white_queenside" -> "Q"
      [] key = "black_kingside" -> "k"
      [] key = "black_queenside" -> "q"

Contains(s, c) == \E i \in 1 .. Len(s) : s[i] = c

\* GameState.load_fen(fen, is_start=True), for a notation of six fields whose
\* placement passes the shape test of line 127
load_fen(g, fen) ==
    LET fields == Split(fen)
        castling == fields[3]
        board1 == fen_to_board(g.board, fields[1])
        board2 == IF fields[4] # <<"-">>
                  THEN [board1 EXCEPT !.en_passant_target = SquareOf(fields[4][1], fields[4][2])]
                  ELSE board1
    IN  [g EXCEPT
            !.board = board2,
            !.turn = IF fields[2] = <<"w">> THEN "white" ELSE "black",
            !.can_castle = IF castling # <<"-">>
                           THEN [k \in CastleKeys |-> Contains(castling, CastleLetter(k))]
                           ELSE @,
            !.in_check = IF castling # <<"-">>
                         THEN [c \in COLOURS |->
                                 square_is_attacked(KingPos(board1, c), board1.squares, c)]
                         ELSE @,
            !.halfmove_clock = StrToInt(fields[5]),
            !.fullmoves = IF fields[6] # <<>> /\ fields[6] # <<"-">>
                          THEN StrToInt(fields[6]) ELSE 0,
            !.position_history = (0 :> fen) @@ @]

\* the runs of s between occurrences of sep, empty runs included
RECURSIVE SplitBy(_, _)
SplitBy(s, sep) ==
    IF \A i \in 1 .. Len(s) : s[i] # sep THEN <<s>>
    ELSE CHOOSE groups \in
             UNION {{<<SubSeq(s, 1, n - 1)>> \o SplitBy(rest, sep) :
                        rest \in {SubSeq(s, n + 1, Len(s))}} :
                    n \in {k \in 1 .. Len(s) :
                              s[k] = sep /\ \A j \in 1 .. (k - 1) : s[j] # sep}} : TRUE

\* [rnbqkpRNBQKP1-8]
IsPlacementChar(c) ==
    \/ c \in {"r", "n", "b", "q", "k", "p", "R", "N", "B", "Q", "K", "P"}
    \/ IsRankChar(c)

\* line 127: re.match(r'^([rnbqkpRNBQKP1-8]{1,8}(/|\Z)){8}$', board): eight
\* runs of one to eight placement characters, each closed by '/' or by the
\* end of the string
PlacementMatches(board) ==
    LET runs == SplitBy(board, "/")
        groups == IF Len(runs) > 1 /\ runs[Len(runs)] = <<>>
                  THEN SubSeq(runs, 1, Len(runs) - 1) ELSE runs
    IN  /\ Len(groups) = Len(RANKS)
        /\ \A i \in 1 .. Len(groups) :
              /\ Len(groups[i]) \in 1 .. Len(FILES)
              /\ \A j \in 1 .. Len(groups[i]) : IsPlacementChar(groups[i][j])

\* fen_to_board line 125: FILES[findex] raises IndexError for a piece placed
\* past the h file; the index of the first such character, 0 when none
RECURSIVE FenOverflowFrom(_, _, _)
FenOverflowFrom(chars, i, findex) ==
    IF i > Len(chars) THEN 0
    ELSE IF chars[i] = "/" THEN FenOverflowFrom(chars, i + 1, 0)
    ELSE IF IsDigit(chars[i])
    THEN FenOverflowFrom(chars, i + 1, findex + DigitValue(chars[i]))
    ELSE IF findex >= Len(FILES) THEN i
    ELSE FenOverflowFrom(chars, i + 1, findex + 1)

FenOverflow(chars) == FenOverflowFrom(chars, 1, 0)

\* GameState.load_fen(fen) with its failures: "InvalidPosition" (ValueError:
\* the unpacking of line 126 or the shape test of line 127, nothing touched),
\* "error" (IndexError inside fen_to_board, the squares before the
\* offending character already written), else "loaded"
LoadFen(g, fen) ==
    LET fields == Split(fen)
    IN  IF Len(fields) # 6 \/ ~PlacementMatches(fields[1])
        THEN [outcome |-> "InvalidPosition", game |-> g]
        ELSE IF FenOverflow(fields[1]) # 0
        THEN [outcome |-> "error",
              game |-> [g EXCEPT !.board =
                          fen_to_board(@, SubSeq(fields[1], 1, FenOverflow(fields[1]) - 1))]]
        ELSE [outcome |-> "loaded", game |-> load_fen(g, fen)]

----------------------------------------------------------------------------
(* gamerules.py: GameState.process_player_move                             *)

update_check(g) ==
    [g EXCEPT !.in_check =
        [c \in COLOURS |-> square_is_attacked(KingPos(g.board, c), g.board.squares, c)]]

\* lines 311-312 without the reset: the target outlives the move
PassantAfterMove_kept(last_passant, target) ==
    target

\* lines 311-312: the target is dropped when the move left it as it was
PassantAfterMove(last_passant, target) ==
    IF last_passant = target THEN NoSquare ELSE target

\* a clock that only pawn moves reset
ClockAfterMove_pawn(validated, halfmove_clock) ==
    IF validated.piece.type = "p" THEN 0 ELSE halfmove_clock + 1

\* lines 313-316
ClockAfterMove(validated, halfmove_clock) ==
    IF validated.is_capture \/ validated.piece.type = "p"
    THEN 0
    ELSE halfmove_clock + 1

\* lines 331-334
CountPosition(position_count, snapshot) ==
    LET key == PositionKey(snapshot)
    IN  IF key \in DOMAIN position_count
        THEN [position_count EXCEPT ![key] = @ + 1]
        ELSE (key :> 1) @@ position_count

\* a history keyed by the number of full moves completed
RecordPosition_completed(position_history, fullmoves, snapshot) ==
    (fullmoves :> snapshot) @@ position_history

\* line 328, after a white half-move: the notation just generated is stored
\* under fullmoves + 1
RecordPosition(position_history, fullmoves, snapshot) ==
    ((fullmoves + 1) :> snapshot) @@ position_history

\* lines 302-339: the accepted move is applied and recorded
ApplyValidated(g, validated) ==
    LET last_passant == g.board.en_passant_target
        last_turn == g.turn
        g1 == make_move(g, validated)
        g2 == [g1 EXCEPT
                 !.board = [@ EXCEPT
                     !.black_king_pos =
                         IF validated.piece = Piece("K", "black")
                         THEN validated.destination ELSE @,
                     !.white_king_pos =
                         IF validated.piece = Piece("K", "white")
                         THEN validated.destination ELSE @,
                     !.en_passant_target = PassantAfterMove(last_passant, @)],
                 !.halfmove_clock = ClockAfterMove(validated, @)]
        snapshot == generate_fen(g2)
        g3 == IF last_turn = "black"
              THEN [g2 EXCEPT
                      !.move_history =
                          IF g2.move_history # <<>>
                          THEN [g2.move_history EXCEPT
                                  ![Len(g2.move_history)] = ("black" :> validated) @@ @]
                          ELSE Append(g2.move_history, "black" :> validated),
                      !.fullmoves = @ + 1]
              ELSE [g2 EXCEPT
                      !.move_history = Append(@, "white" :> validated),
                      !.position_history = RecordPosition(@, g2.fullmoves, snapshot)]
        g4 == update_check([g3 EXCEPT
                              !.position_count = CountPosition(@, snapshot)])
    IN  IF \E c \in COLOURS : g4.in_check[c]
        THEN [g4 EXCEPT !.move_history[Len(g4.move_history)][last_turn].check_str = "+"]
        ELSE g4

\* validate_move for each grammar the token matched (lines 283-288): the
\* sequences of results that can come out
RECURSIVE ValidateAll(_, _, _)
ValidateAll(matches, g, player) ==
    IF matches = <<>> THEN {<<>>}
    ELSE {<<r>> \o rest : r \in validate_move(Head(matches), g, player),
                         rest \in ValidateAll(Tail(matches), g, player)}

\* the value of the attribute game.en_passant_target after the validations
PassantAttr(g, results) ==
    LET set == {i \in 1 .. Len(results) : results[i].passant # NoSquare}
    IN  IF set = {} THEN g.en_passant_target
        ELSE results[CHOOSE i \in set : \A j \in set : j <= i].passant

\* a call that forgets the en-passant target whatever comes of it
Outcome_cleared(outcome, g) ==
    [outcome |-> outcome, game |-> [g EXCEPT !.board.en_passant_target = NoSquare]]

Outcome(outcome, g) == [outcome |-> outcome, game |-> g]

\* The possible outcomes of process_player_move(token) on g: "accepted" (the
\* move was made), "rejected" (validate_move returned None: the call returns
\* with nothing done), or an exception: "invalid" (no grammar matches),
\* "ambiguous", "unvalidated" (Could not validate), "error" (KeyError).
process_player_move(g, token) ==
    LET move_info == parse_move(token)
        Settle(results) ==
            LET ga == [g EXCEPT !.en_passant_target = PassantAttr(g, results)]
                moves == {i \in 1 .. Len(results) : results[i].kind = "move"}
                validated == results[CHOOSE i \in moves : TRUE].move
            IN  IF \E i \in 1 .. Len(results) : results[i].kind = "raise"
                THEN Outcome("error",
                             [g EXCEPT !.en_passant_target =
                                 PassantAttr(g, SubSeq(results, 1,
                                     (CHOOSE i \in 1 .. Len(results) :
                                         /\ results[i].kind = "raise"
                                         /\ \A j \in 1 .. (i - 1) : results[j].kind # "raise") - 1))])
                ELSE IF Len(results) > 1
                THEN \* isinstance(potential_move, list) never holds: conflicts stays empty
                     (IF Cardinality(moves) = 1
                      THEN Outcome("accepted", ApplyValidated(ga, validated))
                      ELSE Outcome("unvalidated", ga))
                ELSE IF results[1].kind = "conflict" THEN Outcome("ambiguous", ga)
                ELSE IF results[1].kind = "move"
                THEN Outcome("accepted", ApplyValidated(ga, validated))
                ELSE Outcome("rejected", ga)
    IN  IF move_info = <<>>
        THEN {Outcome("invalid", g)}
        ELSE {Settle(results) : results \in ValidateAll(move_info, g, g.turn)}

----------------------------------------------------------------------------
(* gamerules.py: GameState.legal_moves and GameState.check_if_end          *)

\* legal_moves(): the Moves the search collects
legal_moves(g) ==
    {m \in UNION {{Move(square, dest, g.board.squares[square]) :
                      dest \in possible_destinations(g.board.squares[square], square,
                                                     g.board.squares, FALSE)} :
                  square \in {sq \in Squares : g.board.squares[sq].colour = g.turn}} :
        is_legal_move(m, g)}

\* legal_moves(flag='any')
has_legal_moves(g) ==
    \E square \in Squares :
        /\ g.board.squares[square].colour = g.turn
        /\ \E dest \in possible_destinations(g.board.squares[square], square,
                                             g.board.squares, FALSE) :
              is_legal_move(Move(square, dest, g.board.squares[square]), g)

\* check_if_end with the repetition test firing on the second occurrence
EndBranch_second(g) ==
    LET key == PositionKey(generate_fen(g))
    IN  IF g.in_check[g.turn] /\ ~has_legal_moves(g) THEN "checkmate"
        ELSE IF ~has_legal_moves(g) THEN "stalemate"
        ELSE IF key \in DOMAIN g.position_count /\ g.position_count[key] = 2
        THEN "threefold repetition"
        ELSE IF g.halfmove_clock >= 100 THEN "50 move rule"
        ELSE "None"

\* the branch check_if_end takes on g
EndBranch(g) ==
    LET key == PositionKey(generate_fen(g))
    IN  IF g.in_check[g.turn] /\ ~has_legal_moves(g) THEN "checkmate"
        ELSE IF ~has_legal_moves(g) THEN "stalemate"
        ELSE IF key \in DOMAIN g.position_count /\ g.position_count[key] = 3
        THEN "threefold repetition"
        ELSE IF g.halfmove_clock >= 100 THEN "50 move rule"
        ELSE "None"

check_if_end(g) ==
    LET branch == EndBranch(g)
    IN  IF branch = "None" THEN g
        ELSE [g EXCEPT !.is_end = TRUE,
                       !.end_state = branch,
                       !.winner = IF branch = "checkmate" THEN opposite(g.turn) ELSE "draw"]

\* load_pgn lines 196-197 (engine.py lines 147-149): the mating move is
\* given its '#'.  With no recorded move of the winner the lookup raises and
\* the state stays as check_if_end left it.
MarkCheckmate(g) ==
    IF /\ g.end_state = "checkmate"
       /\ g.move_history # <<>>
       /\ g.winner \in DOMAIN g.move_history[Len(g.move_history)]
    THEN [g EXCEPT !.move_history[Len(g.move_history)][g.winner].check_str = "#"]
    ELSE g

\* the Moves legal_moves builds and hands to is_legal_move (lines 372-386)
SearchedMoves(g) ==
    UNION {{Move(square, dest, g.board.squares[square]) :
               dest \in possible_destinations(g.board.squares[square], square,
                                              g.board.squares, FALSE)} :
           square \in {sq \in Squares : g.board.squares[sq].colour = g.turn}}

\* a probe that applies the move to the caller's own GameState
CallerAfterProbe_aliased(move, g) == make_move(g, move)

\* the caller's GameState after simulate_move (lines 655-658):
\* copy.deepcopy(game) shares nothing with `game`, and make_move is called
\* on the clone only
CallerAfterProbe(move, g) == g

\* the GameState after legal_moves has probed `moves` one after the other
\* (the search of flag='any' stops early: it makes a prefix of these probes)
RECURSIVE CallerAfterSearch(_, _)
CallerAfterSearch(g, moves) ==
    IF moves = {} THEN g
    ELSE LET move == CHOOSE m \in moves : TRUE
         IN  CallerAfterSearch(CallerAfterProbe(move, g), moves \ {move})

----------------------------------------------------------------------------
(* moves.py: Move.__str__; gamerules.py: generate_pgn, load_pgn            *)

\* Move.__str__
MoveStr(move) ==
    LET check_symbol == IF move.check_str = "" THEN <<>> ELSE <<move.check_str>>
    IN  IF move.special = "castling"
        THEN (IF move.destination[1] = 7 THEN <<"O", "-", "O">>
              ELSE <<"O", "-", "O", "-", "O">>) \o check_symbol
        ELSE IF move.piece.type = "p"
        THEN (IF move.is_capture THEN <<FILES[move.origin[1]], "x">> ELSE <<>>)
             \o SquareStr(move.destination)
             \o (IF move.special = "promotion" THEN <<"=", move.promote>> ELSE <<>>)
             \o check_symbol
        ELSE <<move.piece.type>>
             \o (IF move.disambiguation # NoChar THEN <<move.disambiguation>> ELSE <<>>)
             \o (IF move.is_capture THEN <<"x">> ELSE <<>>)
             \o SquareStr(move.destination)
             \o check_symbol

\* f'{n}' for an integer
SignedToStr(n) == IF n < 0 THEN <<"-">> \o IntToStr(0 - n) ELSE IntToStr(n)

\* lst[:end] of Python for an integer end
SliceTo(lst, end) ==
    IF end >= 0 THEN SubSeq(lst, 1, IF end < Len(lst) THEN end ELSE Len(lst))
    ELSE SubSeq(lst, 1, Len(lst) + end)

\* the moves of one history entry, white's first (the order of insertion)
EntryStr(moves) ==
    (IF "white" \in DOMAIN moves THEN MoveStr(moves["white"]) \o <<" ">> ELSE <<>>)
    \o (IF "black" \in DOMAIN moves THEN MoveStr(moves["black"]) \o <<" ">> ELSE <<>>)

RECURSIVE PgnFrom(_, _, _, _)
PgnFrom(g, entries, i, start_num) ==
    IF i > Len(entries) THEN <<>>
    ELSE SignedToStr(start_num + i) \o <<".">>
         \o (IF DOMAIN g.move_history[1] = {"black"} /\ i = 1 THEN <<".", ".">> ELSE <<>>)
         \o <<" ">>
         \o EntryStr(entries[i])
         \o PgnFrom(g, entries, i + 1, start_num)

\* generate_pgn(end_move=end_move) on a game with a move recorded (an empty
\* move_history raises IndexError at line 102); start_move is left None
generate_pgn(g, end_move) ==
    LET error == IF "black" \in DOMAIN g.move_history[Len(g.move_history)] THEN 0 ELSE 1
        start_num == g.fullmoves - Len(g.move_history) + error
        entries == IF end_move # 0
                   THEN SliceTo(g.move_history, end_move - start_num)
                   ELSE g.move_history
    IN  PgnFrom(g, entries, 1, start_num)

\* utils.py strip_brackets from character i on
RECURSIVE StripBracketsFrom(_, _, _, _, _)
StripBracketsFrom(text, open, close, i, depth) ==
    IF i > Len(text) THEN <<>>
    ELSE IF text[i] = open
    THEN StripBracketsFrom(text, open, close, i + 1, depth + 1)
    ELSE IF text[i] = close
    THEN StripBracketsFrom(text, open, close, i + 1, IF depth > 0 THEN depth - 1 ELSE depth)
    ELSE (IF depth = 0 THEN <<text[i]>> ELSE <<>>)
         \o StripBracketsFrom(text, open, close, i + 1, depth)

strip_brackets(text, open, close) == StripBracketsFrom(text, open, close, 1, 0)

\* re.sub(r';[^\n]*\s*?', '', pgn): a ';' and the rest of its line go
RECURSIVE StripComments(_, _)
StripComments(text, in_comment) ==
    IF text = <<>> THEN <<>>
    ELSE IF in_comment
    THEN (IF Head(text) = "\n" THEN <<"\n">> \o StripComments(Tail(text), FALSE)
          ELSE StripComments(Tail(text), TRUE))
    ELSE IF Head(text) = ";" THEN StripComments(Tail(text), TRUE)
    ELSE <<Head(text)>> \o StripComments(Tail(text), FALSE)

\* re.match(SAN_PATTERN, token): the pattern matches a prefix of the token,
\* letters in the case written
SanMatches(token) ==
    \/ /\ Len(token) >= 3
       /\ SubSeq(token, 1, 3) = <<"O", "-", "O">>
    \/ \E a \in {0, 1}, b \in {0, 1}, c \in {0, 1} :
          /\ Len(token) >= a + b + c + 2
          /\ a = 1 => token[1] \in {"K", "Q", "R", "B", "N"}
          /\ b = 1 => \/ IsRankChar(token[a + 1])
                      \/ \E i \in 1 .. Len(FILES) : FILES[i] = token[a + 1]
          /\ c = 1 => token[a + b + 1] = "x"
          /\ \E i \in 1 .. Len(FILES) : FILES[i] = token[a + b + c + 1]
          /\ IsRankChar(token[a + b + c + 2])

\* the length of the prefix num_pattern r'\d+\.(?:\.\.)?' matches, 0 for none
NumPrefix(item) ==
    LET digits == IF \E k \in 1 .. Len(item) : ~IsDigit(item[k])
                  THEN (CHOOSE k \in 1 .. Len(item) :
                            ~IsDigit(item[k]) /\ \A j \in 1 .. (k - 1) : IsDigit(item[j])) - 1
                  ELSE Len(item)
    IN  IF digits = 0 \/ digits = Len(item) \/ item[digits + 1] # "." THEN 0
        ELSE IF Len(item) >= digits + 3 /\ item[digits + 2] = "." /\ item[digits + 3] = "."
        THEN digits + 3
        ELSE digits + 1

\* lines 181-184.  No token that passed line 178 starts with a move number,
\* so only the leading occurrence is spelled out here.
StripNumber(token) == SubSeq(token, NumPrefix(token) + 1, Len(token))

ResultMarkers ==
    {<<"1", "-", "0">>, <<"0", "-", "1">>, <<"1", "/", "2", "-", "1", "/", "2">>}

\* a marker branch that names white the winner whatever the marker
MarkResult_white(g, token) == [g EXCEPT !.winner = "white", !.is_end = TRUE]

\* lines 166-177: a result marker ends the replay
MarkResult(g, token) ==
    [g EXCEPT
        !.winner = IF token = <<"1", "-", "0">> THEN "white"
                   ELSE IF token = <<"0", "-", "1">> THEN "black"
                   ELSE "draw",
        !.is_end = TRUE,
        !.end_state = IF g.is_end THEN @
                      ELSE IF token = <<"1", "/", "2", "-", "1", "/", "2">>
                      THEN "agreement" ELSE "resignation"]

\* board, side to move, castling rights, en-passant target
Position(g) ==
    [squares |-> g.board.squares, turn |-> g.turn,
     can_castle |-> g.can_castle, en_passant_target |-> g.board.en_passant_target]

\* the loop of lines 165-197 from token i on, going on to the next token
\* after the outcomes in `returned`.  `trace` collects the position after
\* each applied move and `stopped` tells how the loop ended (observations,
\* not fields of the game).  The result is a set: process_player_move can
\* have several outcomes.
RECURSIVE ReplayLoop(_, _, _, _, _)
ReplayLoop(returned, g, tokens, i, trace) ==
    IF i > Len(tokens) THEN {[game |-> g, seen |-> trace, stopped |-> "end"]}
    ELSE IF tokens[i] \in ResultMarkers
    THEN {[game |-> MarkResult(g, tokens[i]), seen |-> trace, stopped |-> "marker"]}
    ELSE IF ~SanMatches(tokens[i]) \/ StripNumber(tokens[i]) = <<>>
    THEN ReplayLoop(returned, g, tokens, i + 1, trace)
    ELSE UNION {
             IF r.outcome \in returned
             THEN UNION {ReplayLoop(returned, checked, tokens, i + 1,
                                    IF r.outcome = "accepted"
                                    THEN Append(trace, Position(r.game))
                                    ELSE trace) :
                         checked \in {MarkCheckmate(check_if_end(r.game))}}
             ELSE {[game |-> r.game, seen |-> trace, stopped |-> "break"]} :
             r \in UNION {process_player_move(g, item) :
                             item \in {StripNumber(tokens[i])}}}

\* process_player_move returns without an exception when the move was made
\* and when validate_move returned None (lines 299-341)
ReturnedOutcomes == {"accepted", "rejected"}

ReplayFrom(g, tokens, i, trace) ==
    UNION {ReplayLoop(ReturnedOutcomes, game0, pgn_tokens, i, trace0) :
           game0 \in {g}, pgn_tokens \in {tokens}, trace0 \in {trace}}

\* the movetext without metadata, comments and variations, split on
\* whitespace (lines 154-163)
PgnTokens(pgn) ==
    CHOOSE pgn_tokens \in
        UNION {UNION {UNION {{Split(strip_brackets(uncommented, "(", ")")) :
                                 uncommented \in {StripComments(unbraced, FALSE)}} :
                             unbraced \in {strip_brackets(headless, "{", "}")}} :
                      headless \in {strip_brackets(text, "[", "]")}} :
               text \in {pgn}} : TRUE

load_pgn(g, pgn) == {r.game : r \in ReplayFrom(g, PgnTokens(pgn), 1, <<>>)}

----------------------------------------------------------------------------
(* gamerules.py: GameState.undo; engine.py: ChessEngine                    *)

\* parsing.py FEN_INITIAL:
\* rnbqkbnr/pppppppp/8/8/8/8/PPPPPPPP/RNBQKBNR w KQkq - 0 0
FEN_INITIAL ==
    <<"r", "n", "b", "q", "k", "b", "n", "r", "/", "p", "p", "p", "p", "p", "p", "p", "p", "/", "8", "/", "8", "/", "8", "/", "8", "/", "P", "P", "P", "P", "P", "P", "P", "P", "/", "R", "N", "B", "Q", "K", "B", "N", "R", " ", "w", " ", "K", "Q", "k", "q", " ", "-", " ", "0", " ", "0">>

\* Python's None where a colour is expected
NoColour == "-"

\* GameState(fen): the position decoded on a new board (lines 39-42)
GameStateOf(fen) == load_fen(NewGameState, fen)

UndoResult(outcome, g, snapshot, trace) ==
    [outcome |-> outcome, game |-> g, snapshot |-> snapshot, seen |-> trace]

\* lines 269-270: the half-move that brings the replayed game to `colour`
UndoHalfMove(g, replayed, dest_move, colour) ==
    IF replayed.game.turn = colour
    THEN {UndoResult("undone", replayed.game, <<g>>, replayed.seen)}
    ELSE IF \/ dest_move + 1 > Len(g.move_history)
            \/ colour \notin COLOURS
            \/ opposite(colour) \notin DOMAIN g.move_history[dest_move + 1]
    THEN {UndoResult("error", g, <<>>, <<>>)}
    ELSE {IF r.outcome = "accepted"
          THEN UndoResult("undone", r.game, <<g>>, Append(replayed.seen, Position(r.game)))
          ELSE IF r.outcome = "rejected"
          THEN UndoResult("undone", r.game, <<g>>, replayed.seen)
          ELSE UndoResult("error", g, <<>>, <<>>) :
          r \in UNION {process_player_move(replayed.game, item) :
                          item \in {MoveStr(g.move_history[dest_move + 1][opposite(colour)])}}}

\* GameState.undo(dest_move, colour) for an integer dest_move: the set of
\* its results.  outcome "UndoRangeError" is the ValueError of line 257,
\* "noop" the return of line 259 (the game itself, no snapshot), "undone" a
\* new game with the snapshot of the old one, "error" any other exception.
\* The new game is built on GameState(), which has already decoded the
\* standard initial position (line 263).
undo(g, dest_move, colour) ==
    LET is_restart == dest_move = 0
        target == IF dest_move < 0 THEN g.fullmoves + dest_move ELSE dest_move
        colour_ == IF colour = NoColour THEN g.turn ELSE colour
        first_move_num == Abs(g.fullmoves - Len(g.move_history))
    IN  IF (target < first_move_num /\ target # 0) \/ target > g.fullmoves
        THEN {UndoResult("UndoRangeError", g, <<>>, <<>>)}
        ELSE IF target = g.fullmoves
        THEN {UndoResult("noop", g, <<>>, <<>>)}
        ELSE IF 0 \notin DOMAIN g.position_history
        THEN {UndoResult("error", g, <<>>, <<>>)}
        ELSE UNION {
                 IF is_restart
                 THEN {UndoResult("undone", new_game, <<g>>, <<Position(new_game)>>)}
                 ELSE IF g.move_history = <<>>
                 THEN {UndoResult("error", g, <<>>, <<>>)}
                 ELSE UNION {UndoHalfMove(g, replayed, target, colour_) :
                             replayed \in ReplayFrom(new_game,
                                              PgnTokens(generate_pgn(g, target)), 1,
                                              <<Position(new_game)>>)} :
                 new_game \in {load_fen(GameStateOf(FEN_INITIAL), g.position_history[0])}}

\* ChessEngine.__init__: no checkpoint, the expiry clock at 0
NewEngine == [checkpoint |-> <<>>, expiry_clock |-> 0, checkpoint_seen |-> <<>>]

\* ChessEngine.update_clock(ticks=1)
update_clock(e) ==
    LET clock == IF e.expiry_clock < 0 THEN 0 ELSE e.expiry_clock
    IN  IF clock > 0
        THEN [e EXCEPT !.expiry_clock = clock - 1]
        ELSE [e EXCEPT !.expiry_clock = clock, !.checkpoint = <<>>, !.checkpoint_seen = <<>>]

----------------------------------------------------------------------------
(* The games explored: a starting position and a movetext for             *)
(* GameState(fen, pgn), the move tokens the driver may feed it, and        *)
(* whether the driver also issues the engine's commands.                   *)

\* r3k1nr/8/8/8/8/8/8/R3K1NR w KQkq - 0 0
\* knights shuffling out and back
FEN_KNIGHTS ==
    <<"r", "3", "k", "1", "n", "r", "/", "8", "/", "8", "/", "8", "/", "8", "/", "8", "/", "8", "/", "R", "3", "K", "1", "N", "R", " ", "w", " ", "K", "Q", "k", "q", " ", "-", " ", "0", " ", "0">>

\* r3k1nr/8/8/8/8/8/8/R3K1NR w KQkq - 7 8
\* the same, the clocks about to reach two digits
FEN_KNIGHTS_LATE ==
    <<"r", "3", "k", "1", "n", "r", "/", "8", "/", "8", "/", "8", "/", "8", "/", "8", "/", "8", "/", "R", "3", "K", "1", "N", "R", " ", "w", " ", "K", "Q", "k", "q", " ", "-", " ", "7", " ", "8">>

\* r3k1nr/8/8/8/8/8/8/R3K1NR w KQkq - 92 60
\* the same, eight half-moves short of the fifty-move rule
FEN_KNIGHTS_FIFTY ==
    <<"r", "3", "k", "1", "n", "r", "/", "8", "/", "8", "/", "8", "/", "8", "/", "8", "/", "8", "/", "R", "3", "K", "1", "N", "R", " ", "w", " ", "K", "Q", "k", "q", " ", "-", " ", "9", "2", " ", "6", "0">>

\* 4k3/4p3/4p3/8/8/4P3/4P3/4K3 w - - 0 0
\* two pawns of each colour behind the double-step landing square
FEN_PAWN_PAIRS ==
    <<"4", "k", "3", "/", "4", "p", "3", "/", "4", "p", "3", "/", "8", "/", "8", "/", "4", "P", "3", "/", "4", "P", "3", "/", "4", "K", "3", " ", "w", " ", "-", " ", "-", " ", "0", " ", "0">>

\* 4k3/8/8/8/2p5/8/B3B3/4K3 w - - 0 0
\* both white bishops can take on c4; bxc4 reads as a pawn or a bishop move
FEN_TWO_BISHOPS ==
    <<"4", "k", "3", "/", "8", "/", "8", "/", "8", "/", "2", "p", "5", "/", "8", "/", "B", "3", "B", "3", "/", "4", "K", "3", " ", "w", " ", "-", " ", "-", " ", "0", " ", "0">>

\* r3k2r/8/8/8/8/8/8/RN2KB1R w KQkq - 0 0
\* pieces between the white king and both rooks
FEN_CASTLE_BLOCKED ==
    <<"r", "3", "k", "2", "r", "/", "8", "/", "8", "/", "8", "/", "8", "/", "8", "/", "8", "/", "R", "N", "2", "K", "B", "1", "R", " ", "w", " ", "K", "Q", "k", "q", " ", "-", " ", "0", " ", "0">>

\* 4k3/8/8/8/8/8/4p3/R3K2R w KQ - 0 0
\* a black pawn attacks d1 and f1
FEN_CASTLE_PAWN ==
    <<"4", "k", "3", "/", "8", "/", "8", "/", "8", "/", "8", "/", "8", "/", "4", "p", "3", "/", "R", "3", "K", "2", "R", " ", "w", " ", "K", "Q", " ", "-", " ", "0", " ", "0">>

\* 4kr2/8/8/8/8/8/8/R3K2R w KQ - 0 0
\* a black rook attacks f1
FEN_CASTLE_ROOK ==
    <<"4", "k", "r", "2", "/", "8", "/", "8", "/", "8", "/", "8", "/", "8", "/", "8", "/", "R", "3", "K", "2", "R", " ", "w", " ", "K", "Q", " ", "-", " ", "0", " ", "0">>

\* r3k2r/8/8/8/8/8/8/R3K2R w Kk - 0 0
\* no queenside rights
FEN_CASTLE_RIGHTS ==
    <<"r", "3", "k", "2", "r", "/", "8", "/", "8", "/", "8", "/", "8", "/", "8", "/", "8", "/", "R", "3", "K", "2", "R", " ", "w", " ", "K", "k", " ", "-", " ", "0", " ", "0">>

\* 4k3/8/8/8/8/6n1/8/4K2R b K - 0 0
\* a black knight can take the rook on h1
FEN_CASTLE_KNIGHT ==
    <<"4", "k", "3", "/", "8", "/", "8", "/", "8", "/", "8", "/", "6", "n", "1", "/", "8", "/", "4", "K", "2", "R", " ", "b", " ", "K", " ", "-", " ", "0", " ", "0">>

\* 4k3/8/8/8/8/8/3p4/5K2 w - - 0 0
\* a black pawn attacks e1
FEN_PAWN_CHECK ==
    <<"4", "k", "3", "/", "8", "/", "8", "/", "8", "/", "8", "/", "8", "/", "3", "p", "4", "/", "5", "K", "2", " ", "w", " ", "-", " ", "-", " ", "0", " ", "0">>

\* 4k3/8/8/3pP3/8/8/8/4K3 w - d6 0 0
\* black has just played d7-d5
FEN_PASSANT ==
    <<"4", "k", "3", "/", "8", "/", "8", "/", "3", "p", "P", "3", "/", "8", "/", "8", "/", "8", "/", "4", "K", "3", " ", "w", " ", "-", " ", "d", "6", " ", "0", " ", "0">>

\* 4k3/3p4/8/4P3/8/8/8/4K3 b - - 0 0
\* black can play d7-d5 next to the white pawn
FEN_DOUBLE_STEP ==
    <<"4", "k", "3", "/", "3", "p", "4", "/", "8", "/", "4", "P", "3", "/", "8", "/", "8", "/", "8", "/", "4", "K", "3", " ", "b", " ", "-", " ", "-", " ", "0", " ", "0">>

\* 7k/4N3/6PK/8/8/8/8/8 w - - 0 0
\* g6-g7 mates
FEN_PAWN_MATE ==
    <<"7", "k", "/", "4", "N", "3", "/", "6", "P", "K", "/", "8", "/", "8", "/", "8", "/", "8", "/", "8", " ", "w", " ", "-", " ", "-", " ", "0", " ", "0">>

\* 4k3/8/8/8/8/8/8/1N2KN2 w - - 0 0
\* both white knights reach d2
FEN_TWO_KNIGHTS ==
    <<"4", "k", "3", "/", "8", "/", "8", "/", "8", "/", "8", "/", "8", "/", "8", "/", "1", "N", "2", "K", "N", "2", " ", "w", " ", "-", " ", "-", " ", "0", " ", "0">>

\* 4k3/8/8/8/8/8/8/4K w - - 0 0
\* the first rank names five files
FEN_SHORT_RANK ==
    <<"4", "k", "3", "/", "8", "/", "8", "/", "8", "/", "8", "/", "8", "/", "8", "/", "4", "K", " ", "w", " ", "-", " ", "-", " ", "0", " ", "0">>

\* 4k3/8/8/8/8/8/8/8/4K3 w - - 0 0
\* nine ranks
FEN_NINE_RANKS ==
    <<"4", "k", "3", "/", "8", "/", "8", "/", "8", "/", "8", "/", "8", "/", "8", "/", "8", "/", "4", "K", "3", " ", "w", " ", "-", " ", "-", " ", "0", " ", "0">>

\* k7/8/8/8/8/8/8/K44p w - - 0 0
\* a pawn placed past the h file
FEN_OVERFLOW ==
    <<"k", "7", "/", "8", "/", "8", "/", "8", "/", "8", "/", "8", "/", "8", "/", "K", "4", "4", "p", " ", "w", " ", "-", " ", "-", " ", "0", " ", "0">>

\* 1. e4 e5 2. Ke3 Nf3 Nc6
\* the third move is illegal, two tokens follow it
PGN_ILLEGAL ==
    <<"1", ".", " ", "e", "4", " ", "e", "5", " ", "2", ".", " ", "K", "e", "3", " ", "N", "f", "3", " ", "N", "c", "6">>

\* [a] 1. e4 {b} e5 (1... c5) 2. Nf3! Nc6 ; c\n
\* the third move token matches no grammar
PGN_MALFORMED ==
    <<"[", "a", "]", " ", "1", ".", " ", "e", "4", " ", "{", "b", "}", " ", "e", "5", " ", "(", "1", ".", ".", ".", " ", "c", "5", ")", " ", "2", ".", " ", "N", "f", "3", "!", " ", "N", "c", "6", " ", ";", " ", "c", "\n">>

\* 1. e4 e5 1-0 2. Nf3
\* a result marker with a token after it
PGN_WHITE_WINS ==
    <<"1", ".", " ", "e", "4", " ", "e", "5", " ", "1", "-", "0", " ", "2", ".", " ", "N", "f", "3">>

\* 1. e4 0-1 e5
PGN_BLACK_WINS ==
    <<"1", ".", " ", "e", "4", " ", "0", "-", "1", " ", "e", "5">>

\* 1. e4 e5 2. Nf3 1/2-1/2 Nc6
PGN_DRAWN ==
    <<"1", ".", " ", "e", "4", " ", "e", "5", " ", "2", ".", " ", "N", "f", "3", " ", "1", "/", "2", "-", "1", "/", "2", " ", "N", "c", "6">>

\* 1. e4
PGN_OPENING ==
    <<"1", ".", " ", "e", "4">>

\* 1. e4 a6 2. e5 a5 3. e6 a4
\* the white pawn stands two captures from the black king
PGN_PAWN_RAID ==
    <<"1", ".", " ", "e", "4", " ", "a", "6", " ", "2", ".", " ", "e", "5", " ", "a", "5", " ", "3", ".", " ", "e", "6", " ", "a", "4">>

Starts ==
    <<[fen |-> FEN_INITIAL, pgn |-> <<>>,
       tokens |-> {<<"e", "4">>, <<"e", "5">>, <<"B", "c", "4">>, <<"N", "c", "6">>, <<"Q", "h", "5">>, <<"N", "f", "6">>, <<"Q", "x", "f", "7", "#">>}, commands |-> FALSE],
      [fen |-> FEN_KNIGHTS, pgn |-> <<>>,
       tokens |-> {<<"N", "f", "3">>, <<"N", "g", "1">>, <<"N", "f", "6">>, <<"N", "g", "8">>}, commands |-> FALSE],
      [fen |-> FEN_KNIGHTS_LATE, pgn |-> <<>>,
       tokens |-> {<<"N", "f", "3">>, <<"N", "g", "1">>, <<"N", "f", "6">>, <<"N", "g", "8">>}, commands |-> TRUE],
      [fen |-> FEN_CASTLE_BLOCKED, pgn |-> <<>>,
       tokens |-> {<<"O", "-", "O">>, <<"O", "-", "O", "-", "O">>, <<"B", "c", "4">>}, commands |-> FALSE],
      [fen |-> FEN_CASTLE_PAWN, pgn |-> <<>>,
       tokens |-> {<<"O", "-", "O">>, <<"O", "-", "O", "-", "O">>, <<"K", "d", "7">>}, commands |-> FALSE],
      [fen |-> FEN_CASTLE_ROOK, pgn |-> <<>>,
       tokens |-> {<<"O", "-", "O">>, <<"O", "-", "O", "-", "O">>, <<"R", "d", "8">>}, commands |-> FALSE],
      [fen |-> FEN_CASTLE_RIGHTS, pgn |-> <<>>,
       tokens |-> {<<"O", "-", "O">>, <<"O", "-", "O", "-", "O">>, <<"o", "-", "o">>, <<"R", "g", "1">>, <<"R", "b", "1">>}, commands |-> FALSE],
      [fen |-> FEN_PAWN_CHECK, pgn |-> <<>>,
       tokens |-> {<<"K", "e", "1">>, <<"K", "g", "2">>, <<"d", "x", "e", "1", "=", "Q">>, <<"K", "e", "7">>, <<"d", "1", "=", "Q", "+">>}, commands |-> FALSE],
      [fen |-> FEN_PASSANT, pgn |-> <<>>,
       tokens |-> {<<"e", "x", "d", "6">>, <<"K", "e", "2">>, <<"K", "e", "7">>, <<"e", "6">>}, commands |-> FALSE],
      [fen |-> FEN_DOUBLE_STEP, pgn |-> <<>>,
       tokens |-> {<<"d", "5">>, <<"d", "6">>, <<"e", "x", "d", "6">>, <<"K", "e", "2">>}, commands |-> FALSE],
      [fen |-> FEN_PAWN_MATE, pgn |-> <<>>,
       tokens |-> {<<"g", "7", "#">>, <<"N", "c", "6">>, <<"K", "g", "8">>}, commands |-> FALSE],
      [fen |-> FEN_TWO_KNIGHTS, pgn |-> <<>>,
       tokens |-> {<<"N", "d", "2">>, <<"N", "b", "d", "2">>, <<"K", "e", "7">>, <<"N", "1", "d", "2">>}, commands |-> FALSE],
      [fen |-> FEN_SHORT_RANK, pgn |-> <<>>,
       tokens |-> {<<"K", "d", "1">>, <<"K", "e", "7">>}, commands |-> FALSE],
      [fen |-> FEN_NINE_RANKS, pgn |-> <<>>,
       tokens |-> {}, commands |-> FALSE],
      [fen |-> FEN_OVERFLOW, pgn |-> <<>>,
       tokens |-> {}, commands |-> FALSE],
      [fen |-> FEN_INITIAL, pgn |-> PGN_ILLEGAL,
       tokens |-> {<<"d", "4">>, <<"e", "9">>}, commands |-> TRUE],
      [fen |-> FEN_INITIAL, pgn |-> PGN_MALFORMED,
       tokens |-> {<<"d", "4">>}, commands |-> FALSE],
      [fen |-> FEN_INITIAL, pgn |-> PGN_WHITE_WINS,
       tokens |-> {<<"d", "4">>}, commands |-> FALSE],
      [fen |-> FEN_INITIAL, pgn |-> PGN_BLACK_WINS,
       tokens |-> {<<"d", "4">>}, commands |-> FALSE],
      [fen |-> FEN_INITIAL, pgn |-> PGN_DRAWN,
       tokens |-> {<<"d", "4">>}, commands |-> FALSE],
      [fen |-> FEN_INITIAL, pgn |-> PGN_OPENING,
       tokens |-> {<<"e", "5">>}, commands |-> TRUE],
      [fen |-> FEN_KNIGHTS_FIFTY, pgn |-> <<>>,
       tokens |-> {<<"N", "f", "3">>, <<"N", "g", "1">>, <<"N", "f", "6">>, <<"N", "g", "8">>}, commands |-> FALSE],
      [fen |-> FEN_PAWN_PAIRS, pgn |-> <<>>,
       tokens |-> {<<"e", "4">>, <<"e", "5">>, <<"e", "3">>}, commands |-> FALSE],
      [fen |-> FEN_TWO_BISHOPS, pgn |-> <<>>,
       tokens |-> {<<"b", "x", "c", "4">>, <<"B", "d", "1">>, <<"K", "d", "7">>, <<"b", "x", "d", "5">>}, commands |-> FALSE],
      [fen |-> FEN_CASTLE_KNIGHT, pgn |-> <<>>,
       tokens |-> {<<"N", "x", "h", "1">>, <<"O", "-", "O">>, <<"K", "d", "7">>}, commands |-> FALSE],
      [fen |-> FEN_INITIAL, pgn |-> PGN_PAWN_RAID,
       tokens |-> {<<"e", "x", "f", "7">>, <<"a", "3">>, <<"f", "x", "e", "8", "=", "Q">>, <<"f", "x", "g", "8">>, <<"f", "x", "g", "8", "=", "N">>}, commands |-> FALSE]>>

----------------------------------------------------------------------------
(* The state machine.  GameState(fen, pgn) builds the game (lines 17-45).  *)
(* A driver (the engine's loop, engine.py lines 133-149; load_pgn's loop,  *)
(* lines 187-197) then hands one input at a time to its handler and, when  *)
(* the handler returns without an exception, runs the rest of the loop     *)
(* body before the next input.  The inputs are move tokens for             *)
(* process_player_move and the engine's restart, revert and undo.          *)

\* the accepted half-moves explored per game
MaxPlies == 9

\* the undo and restart commands explored per game (a revert reinstates a
\* state already explored or changes nothing, and is not counted)
MaxCommands == 2

\* undo targets are taken from fullmoves - MaxBack up to fullmoves + 1
MaxBack == 2

\* the input handled last and what came of it; `target`, `colour` and
\* `before` are the arguments of an undo and the game it was called on,
\* `streak` the undos and restarts that have rebuilt the game since the last
\* other input
Call(command, token, outcome, move, target) ==
    [command |-> command, token |-> token, outcome |-> outcome, move |-> move,
     target |-> target, replay |-> "", before |-> <<>>, colour |-> NoColour,
     streak |-> 0]

\* the streak after an undo with result r: one more when it rebuilt the
\* game, unchanged when it raised, over when it returned the game as it was
StreakAfterUndo(streak, r) ==
    IF r.outcome = "undone" THEN streak + 1
    ELSE IF r.outcome = "noop" THEN 0
    ELSE streak

Init ==
    \E i \in 1 .. Len(Starts) :
        LET loaded == LoadFen(NewGameState, Starts[i].fen)
        IN  /\ start = i
            /\ engine = NewEngine
            /\ commands = 0
            /\ IF loaded.outcome # "loaded"
               THEN /\ game = loaded.game
                    /\ pc = "failed"
                    /\ last = Call("GameState", <<>>, loaded.outcome, NoMove, 0)
                    /\ seen = <<Position(loaded.game)>>
               ELSE \E r \in ReplayFrom(loaded.game, PgnTokens(Starts[i].pgn), 1,
                                        <<Position(loaded.game)>>) :
                        /\ game = r.game
                        /\ pc = "move"
                        /\ last = [Call("GameState", <<>>, "None", NoMove, 0)
                                      EXCEPT !.replay = r.stopped]
                        /\ seen = r.seen

Returned(outcome) == outcome \in ReturnedOutcomes

ProcessPlayerMove(token) ==
    /\ pc = "move"
    /\ Len(seen) <= MaxPlies
    /\ \E r \in process_player_move(game, token) :
          /\ game' = r.game
          /\ last' = Call("move", token, r.outcome,
                          IF r.outcome = "accepted"
                          THEN [r.game.move_history[Len(r.game.move_history)][game.turn]
                                   EXCEPT !.check_str = ""]
                          ELSE NoMove, 0)
          /\ pc' = IF Returned(r.outcome) THEN "check" ELSE "move"
          /\ seen' = IF r.outcome = "accepted" THEN Append(seen, Position(r.game)) ELSE seen
    /\ UNCHANGED <<start, engine, commands>>

\* engine.py lines 144-149 (load_pgn lines 193-197): update_clock,
\* check_if_end and the checkmate marker
CheckIfEnd ==
    /\ pc = "check"
    /\ engine' = update_clock(engine)
    /\ game' = MarkCheckmate(check_if_end(CallerAfterSearch(game, SearchedMoves(game))))
    /\ pc' = "move"
    /\ UNCHANGED <<start, last, seen, commands>>

\* what an undo leaves in the engine: the new game and the snapshot
\* (`self.game, self.checkpoint = self.game.undo(...)`), nothing when undo
\* raised; `cleared` is restart's emptying of the new game's histories
UndoRaised(r) == r.outcome \in {"UndoRangeError", "error"}

GameAfterUndo(g, r, cleared) ==
    IF UndoRaised(r) THEN g
    ELSE IF r.snapshot # <<>> /\ cleared
    THEN [r.game EXCEPT !.move_history = <<>>,
                        !.position_count = <<>>,
                        !.position_history = <<>>]
    ELSE r.game

EngineAfterUndo(e, r, trace) ==
    IF UndoRaised(r) THEN e
    ELSE [e EXCEPT !.checkpoint = r.snapshot,
                   !.checkpoint_seen = IF r.snapshot # <<>> THEN trace ELSE <<>>]

SeenAfterUndo(trace, r) ==
    IF UndoRaised(r) \/ r.snapshot = <<>> THEN trace ELSE r.seen

\* ChessEngine.restart
Restart ==
    /\ pc = "move"
    /\ Starts[start].commands
    /\ commands < MaxCommands
    /\ commands' = commands + 1
    /\ \E r \in undo(game, 0, NoColour) :
          /\ last' = [Call("restart", <<>>, r.outcome, NoMove, 0)
                          EXCEPT !.before = <<game>>,
                                 !.streak = StreakAfterUndo(last.streak, r)]
          /\ pc' = IF UndoRaised(r) THEN "move" ELSE "check"
          /\ game' = GameAfterUndo(game, r, TRUE)
          /\ engine' = EngineAfterUndo(engine, r, seen)
          /\ seen' = SeenAfterUndo(seen, r)
    /\ UNCHANGED start

\* ChessEngine.revert_undo
RevertUndo ==
    /\ pc = "move"
    /\ Starts[start].commands
    /\ pc' = "check"
    /\ IF engine.checkpoint # <<>>
       THEN /\ game' = engine.checkpoint[1]
            /\ seen' = engine.checkpoint_seen
            /\ engine' = [engine EXCEPT !.checkpoint = <<>>, !.checkpoint_seen = <<>>]
            /\ last' = Call("revert", <<>>, "reverted", NoMove, 0)
       ELSE /\ last' = Call("revert", <<>>, "Could not revert", NoMove, 0)
            /\ UNCHANGED <<game, seen, engine>>
    /\ UNCHANGED <<start, commands>>

\* ChessEngine.execute_undo(move_num, colour): undo(int(move_num), str(colour))
ExecuteUndo(move_num, colour) ==
    /\ pc = "move"
    /\ Starts[start].commands
    /\ commands < MaxCommands
    /\ commands' = commands + 1
    /\ \E r \in undo(game, move_num, IF colour = NoColour THEN "None" ELSE colour) :
          /\ last' = [Call("undo", <<>>, r.outcome, NoMove, move_num)
                          EXCEPT !.before = <<game>>, !.colour = colour,
                                 !.streak = StreakAfterUndo(last.streak, r)]
          /\ pc' = IF UndoRaised(r) THEN "move" ELSE "check"
          /\ game' = GameAfterUndo(game, r, FALSE)
          /\ engine' = EngineAfterUndo(engine, r, seen)
          /\ seen' = SeenAfterUndo(seen, r)
    /\ UNCHANGED start

Next ==
    \/ \E token \in Starts[start].tokens : ProcessPlayerMove(token)
    \/ CheckIfEnd
    \/ Restart
    \/ RevertUndo
    \/ \E move_num \in {game.fullmoves + d : d \in (0 - MaxBack) .. 1} \cup {0},
          colour \in COLOURS \cup {NoColour} : ExecuteUndo(move_num, colour)

Spec == Init /\ [][Next]_vars

----------------------------------------------------------------------------
(* The rules of chess the properties are stated against: which squares a   *)
(* piece attacks, written from the rules and not from the code.            *)

Sign(n) == IF n > 0 THEN 1 ELSE IF n < 0 THEN -1 ELSE 0

ClearLine(squares, from, to) ==
    LET df == to[1] - from[1]
        dr == to[2] - from[2]
        n == IF Abs(df) > Abs(dr) THEN Abs(df) ELSE Abs(dr)
    IN  \A k \in 1 .. (n - 1) :
            squares[<<from[1] + k * Sign(df), from[2] + k * Sign(dr)>>] = NoPiece

PieceAttacks(squares, from, to) ==
    LET p == squares[from]
        df == to[1] - from[1]
        dr == to[2] - from[2]
        diagonal == Abs(df) = Abs(dr)
        orthogonal == df = 0 \/ dr = 0
    IN  /\ from # to
        /\ CASE p.type = "p" -> Abs(df) = 1 /\ dr = (IF p.colour = "white" THEN 1 ELSE -1)
             [] p.type = "N" -> {Abs(df), Abs(dr)} = {1, 2}
             [] p.type = "B" -> diagonal /\ ClearLine(squares, from, to)
             [] p.type = "R" -> orthogonal /\ ClearLine(squares, from, to)
             [] p.type = "Q" -> (diagonal \/ orthogonal) /\ ClearLine(squares, from, to)
             [] p.type = "K" -> Abs(df) <= 1 /\ Abs(dr) <= 1
             [] OTHER -> FALSE

\* some piece of the other colour attacks `target`
Attacked(squares, target, colour) ==
    \E from \in Squares :
        /\ squares[from].colour = opposite(colour)
        /\ PieceAttacks(squares, from, target)

KingSquares(squares, colour) == {sq \in Squares : squares[sq] = Piece("K", colour)}

Occurrences(position) == Cardinality({i \in 1 .. Len(seen) : seen[i] = position})

IsDoubleStep(move) ==
    /\ move.piece.type = "p"
    /\ move.origin[1] = move.destination[1]
    /\ Abs(move.destination[2] - move.origin[2]) = 2

SkippedSquare(move) ==
    <<move.origin[1], (move.origin[2] + move.destination[2]) \div 2>>

\* the half-move played last
LastPlayed(g) ==
    IF g.move_history # <<>>
       /\ opposite(g.turn) \in DOMAIN g.move_history[Len(g.move_history)]
    THEN g.move_history[Len(g.move_history)][opposite(g.turn)]
    ELSE NoMove

\* this step is a process_player_move call that made a move
Accepted == pc = "move" /\ last'.outcome = "accepted"

CastlingAccepted == Accepted /\ last'.move.special = "castling"

\* the last token asked for a capture by a pawn of the side to move onto an
\* empty square, past an enemy pawn standing beside it
PassantShaped(g, token) ==
    \E i \in 1 .. Len(parse_move(token)) :
        LET md == parse_move(token)[i]
            sign == IF g.turn = "white" THEN 1 ELSE -1
            dest == md.destination
        IN  /\ md.type = "pawn" /\ md.capture
            /\ ~InBoard(g.board.squares, dest)
            /\ Abs(FileIndex(md.origin) - dest[1]) = 1
            /\ g.board.squares[<<FileIndex(md.origin), dest[2] - sign>>] = Piece("p", g.turn)
            /\ g.board.squares[<<dest[1], dest[2] - sign>>] = Piece("p", opposite(g.turn))

----------------------------------------------------------------------------
(* The properties                                                          *)

\* C1: after every accepted move the king of the side that just moved is
\* attacked by no opposing piece.
C1_SelfCheckSafety ==
    last.outcome = "accepted" =>
        \A k \in KingSquares(game.board.squares, opposite(game.turn)) :
            ~Attacked(game.board.squares, k, opposite(game.turn))

\* C2: white_king_pos and black_king_pos each name a square that holds the
\* king of that colour.
C2_KingSquareCache ==
    /\ game.board.squares[game.board.white_king_pos] = Piece("K", "white")
    /\ game.board.squares[game.board.black_king_pos] = Piece("K", "black")

\* C3: castling is accepted only when every square strictly between the king
\* and the rook was empty: f and g for O-O; b, c and d for O-O-O.
C3_CastlingPathEmpty ==
    [][CastlingAccepted =>
         LET r == last'.move.origin[2]
             between == IF last'.move.destination[1] = 7
                        THEN {<<6, r>>, <<7, r>>}
                        ELSE {<<2, r>>, <<3, r>>, <<4, r>>}
         IN  \A sq \in between : ~InBoard(game.board.squares, sq)]_vars

\* C4: castling is accepted only when the king's start square, the square it
\* passes and its destination were attacked by no opposing piece.
C4_CastlingPathSafe ==
    [][CastlingAccepted =>
         LET r == last'.move.origin[2]
             path == IF last'.move.destination[1] = 7
                     THEN {<<5, r>>, <<6, r>>, <<7, r>>}
                     ELSE {<<5, r>>, <<4, r>>, <<3, r>>}
         IN  \A sq \in path : ~Attacked(game.board.squares, sq, game.turn)]_vars

\* C5: castling is accepted only when the rights flag of the mover's colour
\* and of that side was true.
C5_CastlingNeedsRights ==
    [][CastlingAccepted =>
         game.can_castle[CastleKey(game.turn,
                                   IF last'.move.destination[1] = 7
                                   THEN "kingside" ELSE "queenside")]]_vars

\* C5 witness: a castling token was refused although king and rook stand at
\* home, the squares between them are empty and nothing attacks the king's
\* path: the false flag alone refuses it.
C5_Witness ==
    /\ last.outcome = "rejected"
    /\ MatchCastling(last.token) # <<>>
    /\ LET side == MatchCastling(last.token)[1].side
           r == IF game.turn = "white" THEN 1 ELSE 8
           rook == IF side = "O-O" THEN <<8, r>> ELSE <<1, r>>
           between == IF side = "O-O" THEN {<<6, r>>, <<7, r>>}
                      ELSE {<<2, r>>, <<3, r>>, <<4, r>>}
           path == IF side = "O-O" THEN {<<5, r>>, <<6, r>>, <<7, r>>}
                   ELSE {<<5, r>>, <<4, r>>, <<3, r>>}
       IN  /\ ~game.can_castle[CastleKey(game.turn,
                                 IF side = "O-O" THEN "kingside" ELSE "queenside")]
           /\ game.board.squares[<<5, r>>] = Piece("K", game.turn)
           /\ game.board.squares[rook] = Piece("R", game.turn)
           /\ \A sq \in between : ~InBoard(game.board.squares, sq)
           /\ \A sq \in path : ~Attacked(game.board.squares, sq, game.turn)

\* C6: after an accepted two-square pawn advance the board's en-passant
\* target is the square the pawn skipped, and the capture onto that square
\* by an adjacent enemy pawn on the next move is not refused.
C6_DoubleStepSetsTarget ==
    /\ (last.outcome = "accepted" /\ IsDoubleStep(last.move))
          => game.board.en_passant_target = SkippedSquare(last.move)
    /\ ~(/\ last.outcome = "rejected"
         /\ IsDoubleStep(LastPlayed(game))
         /\ PassantShaped(game, last.token)
         /\ \E i \in 1 .. Len(parse_move(last.token)) :
               parse_move(last.token)[i].destination = SkippedSquare(LastPlayed(game)))

\* C7: an accepted move that is no two-square pawn advance leaves the
\* en-passant target empty, and a pawn is accepted diagonally onto an empty
\* square only as the reply to the two-square advance that skipped that
\* square (or as the first move on a loaded position that names the target).
C7_PassantOnlyNextMove ==
    [][Accepted =>
         /\ ~IsDoubleStep(last'.move) => game'.board.en_passant_target = NoSquare
         /\ (/\ last'.move.piece.type = "p"
             /\ last'.move.origin[1] # last'.move.destination[1]
             /\ ~InBoard(game.board.squares, last'.move.destination))
            => \/ Len(seen) = 1
               \/ /\ IsDoubleStep(LastPlayed(game))
                  /\ SkippedSquare(LastPlayed(game)) = last'.move.destination]_vars

\* C7 witness: the pattern still matches two moves after the advance (the
\* pawns stand side by side, the skipped square is empty) and the capture is
\* refused.
C7_Witness ==
    /\ last.outcome = "rejected"
    /\ Len(seen) > 2
    /\ game.board.en_passant_target = NoSquare
    /\ PassantShaped(game, last.token)

\* C8: after an accepted move and check_if_end, a position that has occurred
\* three times (the start counted, the clocks ignored) with a legal move for
\* the side to move has ended the game: threefold repetition, a draw.
C8_ThreefoldEnds ==
    (/\ pc = "move"
     /\ last.outcome = "accepted"
     /\ Occurrences(Position(game)) >= 3
     /\ has_legal_moves(game))
    => /\ game.is_end
       /\ game.end_state = "threefold repetition"
       /\ game.winner = "draw"

\* C9: whenever check_if_end takes its threefold-repetition branch, the
\* current position has occurred at least three times.
C9_ThreefoldOnlyOnThird ==
    (pc = "check" /\ EndBranch(game) = "threefold repetition")
    => Occurrences(Position(game)) >= 3

\* C9 witness: check_if_end has ended a game by threefold repetition.
C9_Witness ==
    /\ pc = "move"
    /\ last.outcome = "accepted"
    /\ game.is_end
    /\ game.end_state = "threefold repetition"
    /\ Occurrences(Position(game)) >= 3

\* C10: after an accepted move and check_if_end, a side to move that is in
\* check and has no legal move has been checkmated: is_end, end_state
\* checkmate, winner the side that just moved.
C10_CheckmateDetected ==
    (/\ pc = "move"
     /\ last.outcome = "accepted"
     /\ \E k \in KingSquares(game.board.squares, game.turn) :
           Attacked(game.board.squares, k, game.turn)
     /\ ~has_legal_moves(game))
    => /\ game.is_end
       /\ game.end_state = "checkmate"
       /\ game.winner = opposite(game.turn)

\* the game stands at the standard initial position
AtInitialPosition == generate_fen(game) = FEN_INITIAL

MovesOf(g, types) == {m \in legal_moves(g) : m.piece.type \in types}

\* C11: from the standard initial position legal_moves() returns exactly 20
\* moves for the side to move: 16 pawn moves and 4 knight moves.
C11_TwentyOpeningMoves ==
    AtInitialPosition =>
        /\ Cardinality(legal_moves(game)) = 20
        /\ Cardinality(MovesOf(game, {"p"})) = 16
        /\ Cardinality(MovesOf(game, {"N"})) = 4

\* C11 witness: a game built on the standard initial position, before any
\* input, whose search has collected the 20 moves.
C11_Witness ==
    /\ Starts[start].fen = FEN_INITIAL
    /\ Len(seen) = 1
    /\ AtInitialPosition
    /\ Cardinality(legal_moves(game)) = 20

\* GameState(fen) has just been built, with no movetext and no input yet
JustLoaded(fen) ==
    /\ last.command = "GameState"
    /\ last.outcome = "None"
    /\ Starts[start].fen = fen
    /\ Starts[start].pgn = <<>>

\* C12: load_fen of the standard initial position string followed by
\* generate_fen returns exactly that string,
\* rnbqkbnr/pppppppp/8/8/8/8/PPPPPPPP/RNBQKBNR w KQkq - 0 0.
C12_InitialRoundTrip ==
    JustLoaded(FEN_INITIAL) => generate_fen(game) = FEN_INITIAL

\* C12 witness: the game decoded from the standard initial position, whose
\* encoding is again 56 characters long and ends in the clocks 0 0.
C12_Witness ==
    /\ JustLoaded(FEN_INITIAL)
    /\ game = load_fen(NewGameState, FEN_INITIAL)
    /\ Len(generate_fen(game)) = Len(FEN_INITIAL)
    /\ game.board.squares[<<5, 8>>] = Piece("K", "black")

\* this step is the revert that follows a restart with no input between
RevertAfterRestart ==
    /\ pc = "move"
    /\ last.command = "restart"
    /\ ~UndoRaised(last)
    /\ last'.command = "revert"

\* C13: undo(0) followed immediately by revert restores the exact pre-undo
\* state: board, king squares, turn, castling rights, check flags, move
\* history, position history, position counts and clocks.
C13_RevertRestores ==
    [][RevertAfterRestart => game' = last.before[1]]_vars

\* this step is a process_player_move call that did not make a move
Refused == pc = "move" /\ last'.command = "move" /\ last'.outcome # "accepted"

\* C14: when process_player_move is given a token that is malformed,
\* ambiguous or illegal in the current position, the board, king squares,
\* en-passant target, turn, castling rights, check flags, clocks, move
\* history, position history and position counts are identical to their
\* values before the call.
C14_RefusedInputChangesNothing ==
    [][Refused => game' = game]_vars

\* C14 witness: a token two pieces can play was refused as ambiguous, in a
\* game that stands as it stood when it was loaded.
C14_Witness ==
    /\ last.command = "move"
    /\ last.outcome = "ambiguous"
    /\ last.token # <<>>
    /\ pc = "move"
    /\ Len(seen) = 1
    /\ game = load_fen(NewGameState, Starts[start].fen)

\* GameState(fen, pgn) has just been built, no input handled yet
JustBuilt == last.command = "GameState" /\ last.outcome = "None"

\* the games a replay leaves that stops at the first move token
\* process_player_move does not play
StoppedAtFirstFailure(fen, pgn) ==
    {r.game : r \in ReplayLoop({"accepted"}, load_fen(NewGameState, fen),
                               PgnTokens(pgn), 1, <<>>)}

\* C15: movetext replay stops at the first move token that fails to
\* validate: load_pgn applies the moves before it and none of the tokens
\* after it.
C15_ReplayStopsAtFirstFailure ==
    JustBuilt => game \in StoppedAtFirstFailure(Starts[start].fen, Starts[start].pgn)

\* the files a rank of a placement field names: one per piece letter, the
\* digit's value per digit
RECURSIVE RankFiles(_)
RankFiles(run) ==
    IF run = <<>> THEN 0
    ELSE (IF IsDigit(Head(run)) THEN DigitValue(Head(run)) ELSE 1) + RankFiles(Tail(run))

\* the placement field: exactly 8 ranks, each summing to exactly 8 files
EightRanksOfEight(board) ==
    LET ranks == SplitBy(board, "/")
    IN  /\ Len(ranks) = 8
        /\ \A i \in 1 .. Len(ranks) :
              /\ \A j \in 1 .. Len(ranks[i]) : IsPlacementChar(ranks[i][j])
              /\ RankFiles(ranks[i]) = 8

\* C16: load_fen rejects every placement that does not consist of exactly 8
\* ranks each summing to exactly 8 files, and on rejection no square of the
\* board has been changed.
C16_PlacementCheckedFirst ==
    ~EightRanksOfEight(Split(Starts[start].fen)[1])
        => /\ pc = "failed"
           /\ game.board = NewBoard

\* the fullmove count the recorded history starts at: the count now less the
\* fullmoves completed since (one per recorded black move)
FirstRecordedFullmove(g) ==
    g.fullmoves - Cardinality({i \in 1 .. Len(g.move_history) :
                                  "black" \in DOMAIN g.move_history[i]})

\* undo(target, colour) has just been called with a colour, on last.before
UndoCalled == last.command = "undo" /\ last.colour \in COLOURS

\* the fullmove that call asked for: a negative target counts back from the
\* current fullmove
UndoTarget ==
    IF last.target < 0 THEN last.before[1].fullmoves + last.target ELSE last.target

\* C17: undo rejects every target fullmove outside [first recorded fullmove,
\* current fullmove] with an error and without producing a new state or
\* snapshot, and accepts every target inside that range (target 0, the
\* restart, apart).
C17_UndoRange ==
    (UndoCalled /\ UndoTarget # 0) =>
        LET g == last.before[1]
        IN  IF UndoTarget \in FirstRecordedFullmove(g) .. g.fullmoves
            THEN ~UndoRaised(last)
            ELSE /\ last.outcome = "UndoRangeError"
                 /\ game = g
                 /\ engine.checkpoint = <<>>

\* undo(0) has just been called, by restart or by undo, on a game with a
\* recorded starting position and at least one move played
UndoZeroCalled ==
    /\ last.command \in {"restart", "undo"}
    /\ last.target = 0
    /\ last.before[1].move_history # <<>>
    /\ 0 \in DOMAIN last.before[1].position_history

\* C18: undo(0) on a state in which at least one move has been played returns
\* a state equal to the one obtained by decoding the recorded starting
\* position alone: same board, turn, rights, clocks, empty move history.
C18_UndoZeroIsRestart ==
    UndoZeroCalled =>
        LET fresh == load_fen(NewGameState, last.before[1].position_history[0])
        IN  /\ game.board = fresh.board
            /\ game.turn = fresh.turn
            /\ game.can_castle = fresh.can_castle
            /\ game.halfmove_clock = fresh.halfmove_clock
            /\ game.fullmoves = fresh.fullmoves
            /\ game.move_history = <<>>

\* the winner a result marker names
MarkerWinner(token) ==
    CASE token = <<"1", "-", "0">> -> "white"
      [] token = <<"0", "-", "1">> -> "black"
      [] token = <<"1", "/", "2", "-", "1", "/", "2">> -> "draw"
      [] OTHER -> "None"

\* the index of the first result marker of a movetext's tokens, if any
FirstMarker(tokens) ==
    {k \in 1 .. Len(tokens) :
        /\ MarkerWinner(tokens[k]) # "None"
        /\ \A j \in 1 .. (k - 1) : MarkerWinner(tokens[j]) = "None"}

\* C19: when movetext replay meets a result marker (1-0, 0-1 or 1/2-1/2), no
\* later token is applied, is_end is true afterwards, and winner is white,
\* black or draw respectively.
C19_MarkerEndsReplay ==
    JustBuilt =>
        LET tokens == PgnTokens(Starts[start].pgn)
            loaded == load_fen(NewGameState, Starts[start].fen)
        IN  \A k \in FirstMarker(tokens) :
                \A r \in ReplayFrom(loaded, SubSeq(tokens, 1, k - 1), 1, <<>>) :
                    r.stopped = "end" =>
                        /\ game.is_end
                        /\ game.winner = MarkerWinner(tokens[k])
                        /\ game.move_history = r.game.move_history
                        /\ game.board = r.game.board
                        /\ game.turn = r.game.turn

\* C19 witness: a movetext with the marker 1/2-1/2 after three half-moves
\* and a move after it has been replayed: the game is over, a draw, and
\* black's second move was not played.
C19_Witness ==
    /\ JustBuilt
    /\ last.replay = "marker"
    /\ Starts[start].pgn = PGN_DRAWN
    /\ game.is_end
    /\ game.winner = "draw"
    /\ Len(game.move_history) = 2
    /\ game.turn = "black"

\* the home squares of the rooks: a1 and h1, a8 and h8
RookHome(colour, side) ==
    <<IF side = "queenside" THEN 1 ELSE 8, IF colour = "white" THEN 1 ELSE 8>>

\* C20: when a rook is moved away from its original home square (a1/h1 for
\* white, a8/h8 for black), make_move clears the castling right of that
\* colour on that side.
C20_RookMoveClearsRight ==
    [][Accepted =>
         \A side \in {"kingside", "queenside"} :
             (/\ last'.move.piece.type = "R"
              /\ last'.move.special # "castling"
              /\ last'.move.origin = RookHome(game.turn, side))
             => ~game'.can_castle[CastleKey(game.turn, side)]]_vars

\* this step is an accepted move of the king, castling included
KingMoved == Accepted /\ (last'.move.piece.type = "K" \/ last'.move.special = "castling")

\* C21: after any accepted king move, including either castling move, both
\* castling rights of the moving colour are false, and the other colour's
\* castling rights are unchanged.
C21_KingMoveClearsRights ==
    [][KingMoved =>
         \A side \in {"kingside", "queenside"} :
             /\ ~game'.can_castle[CastleKey(game.turn, side)]
             /\ game'.can_castle[CastleKey(opposite(game.turn), side)]
                    = game.can_castle[CastleKey(opposite(game.turn), side)]]_vars

\* C21 witness: white has castled with only the kingside right, black has
\* not moved: white has no right left, black keeps exactly the one it had.
C21_Witness ==
    /\ last.outcome = "accepted"
    /\ last.move.special = "castling"
    /\ last.move.piece = Piece("K", "white")
    /\ Len(seen) = 2
    /\ ~game.can_castle["white_kingside"]
    /\ ~game.can_castle["white_queenside"]
    /\ game.can_castle["black_kingside"]
    /\ ~game.can_castle["black_queenside"]

\* C22: square_is_attacked(square, board, defending colour) is true exactly
\* when at least one piece of the opposing colour attacks the square (pawn:
\* one rank forward on an adjacent file; knight: L-offset; bishop/queen:
\* unobstructed diagonal; rook/queen: unobstructed orthogonal; king:
\* adjacent), for every square of the board, ranks 1 and 8 included.
C22_AttackedExactly ==
    \A square \in Squares, colour \in COLOURS :
        square_is_attacked(square, game.board.squares, colour)
            <=> Attacked(game.board.squares, square, colour)

\* the king of the side to move is attacked
InCheck(g) ==
    \E k \in KingSquares(g.board.squares, g.turn) :
        Attacked(g.board.squares, k, g.turn)

\* the end condition of highest priority that holds in g: checkmate, then
\* stalemate, then threefold repetition, then the fifty-move rule
EndByPriority(g) ==
    IF ~has_legal_moves(g) /\ InCheck(g) THEN "checkmate"
    ELSE IF ~has_legal_moves(g) THEN "stalemate"
    ELSE IF Occurrences(Position(g)) >= 3 THEN "threefold repetition"
    ELSE IF g.halfmove_clock >= 100 THEN "50 move rule"
    ELSE "None"

\* this step is the check_if_end that follows an accepted move
EndChecked == pc = "check" /\ last.outcome = "accepted"

\* C23: check_if_end reports checkmate if the side to move has no legal move
\* and is in check; otherwise stalemate if it has no legal move; otherwise
\* threefold repetition if the repetition condition holds; otherwise the
\* fifty-move rule if the halfmove clock is at least 100; when several hold
\* only the one of highest priority determines end_state and winner.
C23_EndPriority ==
    [][EndChecked =>
         LET end == EndByPriority(game)
         IN  IF end = "None"
             THEN /\ game'.is_end = game.is_end
                  /\ game'.end_state = game.end_state
                  /\ game'.winner = game.winner
             ELSE /\ game'.is_end
                  /\ game'.end_state = end
                  /\ game'.winner = IF end = "checkmate"
                                    THEN opposite(game.turn) ELSE "draw"]_vars

\* C24: the game ends as a draw by the fifty-move rule exactly when, after
\* an accepted move, no end condition of higher priority holds and the
\* halfmove clock (the half-moves played without a capture or pawn move) is
\* at least 100; below 100 the rule never ends the game.
C24_FiftyMoveRule ==
    [][EndChecked =>
         ((game'.is_end /\ game'.end_state = "50 move rule" /\ game'.winner = "draw")
              <=> EndByPriority(game) = "50 move rule")]_vars

\* this step is a process_player_move call
MoveHandled == pc = "move" /\ last'.command = "move"

\* the move just accepted took a piece or was made by a pawn, judged on the
\* board it was played on
CaptureOrPawnMove ==
    \/ game.board.squares[last'.move.origin].type = "p"
    \/ /\ last'.move.special # "castling"
       /\ game.board.squares[last'.move.destination] # NoPiece

\* C25: every accepted move that is a capture or a pawn move (promotion and
\* en passant included) sets halfmove_clock to 0, every other accepted move
\* increases it by exactly 1, and a rejected token leaves it unchanged.
C25_HalfmoveClock ==
    [][MoveHandled =>
         game'.halfmove_clock =
             IF last'.outcome # "accepted" THEN game.halfmove_clock
             ELSE IF CaptureOrPawnMove THEN 0
             ELSE game.halfmove_clock + 1]_vars

\* C25 witness: after four piece moves without a capture the queen has
\* taken on f7 and the clock is back at 0.
C25_Witness ==
    /\ last.outcome = "accepted"
    /\ last.move.piece = Piece("Q", "white")
    /\ last.move.is_capture
    /\ Len(game.move_history) = 4
    /\ game.move_history[3]["white"].piece.type = "Q"
    /\ game.move_history[3]["black"].piece.type = "N"
    /\ game.move_history[2]["white"].piece.type = "B"
    /\ game.move_history[2]["black"].piece.type = "N"
    /\ game.halfmove_clock = 0

\* the pieces of the side to move, of the type a piece-move notation names,
\* that can reach its destination
Candidates(g, md) ==
    {from \in Squares :
        /\ g.board.squares[from] = Piece(md.piece, g.turn)
        /\ PieceAttacks(g.board.squares, from, md.destination)}

\* the candidates the notation's file or rank hint names
Hinted(g, md) ==
    {c \in Candidates(g, md) : md.origin \in {FILES[c[1]], RANKS[c[2]]}}

\* the notation marks a capture exactly when the destination is occupied
CaptureSyntaxFits(g, md) ==
    md.capture <=> g.board.squares[md.destination] # NoPiece

\* C26: when two or more pieces of the same colour and type can reach the
\* destination, validate_move resolves an origin only if the file-or-rank
\* hint matches exactly one of them; with no hint, or a hint matching more
\* than one candidate, it returns the unresolved candidate set.
C26_HintResolvesOne ==
    pc = "move" =>
        \A token \in Starts[start].tokens :
            \A i \in DOMAIN parse_move(token) :
                LET md == parse_move(token)[i]
                IN  (/\ md.type = "piece"
                     /\ CaptureSyntaxFits(game, md)
                     /\ Cardinality(Candidates(game, md)) >= 2)
                    => \A res \in validate_move(md, game, game.turn) :
                           IF Cardinality(Hinted(game, md)) = 1
                           THEN /\ res.kind # "conflict"
                                /\ res.kind = "move" => res.move.origin \in Hinted(game, md)
                           ELSE /\ res.kind = "conflict"
                                /\ res.conflict = Candidates(game, md)

\* a pawn notation whose destination is on the double-step landing rank of
\* the side to move, with pawns of that side on both candidate origins
BothOriginsHeld(g, md) ==
    LET sign == IF g.turn = "white" THEN 1 ELSE -1
        file == IF md.capture THEN FileIndex(md.origin) ELSE md.destination[1]
    IN  /\ md.type = "pawn"
        /\ md.destination[2] = (IF g.turn = "white" THEN 4 ELSE 5)
        /\ CaptureSyntaxFits(g, md)
        /\ g.board.squares[<<file, md.destination[2] - sign>>] = Piece("p", g.turn)
        /\ g.board.squares[<<file, md.destination[2] - 2 * sign>>] = Piece("p", g.turn)

\* the candidate origin `steps` ranks behind the destination
OriginBehind(g, md, steps) ==
    <<IF md.capture THEN FileIndex(md.origin) ELSE md.destination[1],
      md.destination[2] - steps * (IF g.turn = "white" THEN 1 ELSE -1)>>

\* C27 as claimed: with same-colour pawns on both the single-step and the
\* double-step origin of the destination file, validate_move selects the
\* pawn on the double-step starting rank (rank 2 for white, rank 7 for
\* black) as the move's origin.
C27_StartingRankPreferred ==
    pc = "move" =>
        \A token \in Starts[start].tokens :
            \A i \in DOMAIN parse_move(token) :
                LET md == parse_move(token)[i]
                IN  BothOriginsHeld(game, md)
                    => \A res \in validate_move(md, game, game.turn) :
                           res.kind = "move"
                               => res.move.origin = OriginBehind(game, md, 2)

\* C27 amended: in that case validate_move selects the pawn on the
\* single-step origin (rank 3 for white, rank 6 for black): the Move it
\* returns starts there, and it returns None only when that pawn's move is
\* not legal.
C27_NearPawnPreferred ==
    pc = "move" =>
        \A token \in Starts[start].tokens :
            \A i \in DOMAIN parse_move(token) :
                LET md == parse_move(token)[i]
                    near == [Move(OriginBehind(game, md, 1), md.destination,
                                  Piece("p", game.turn))
                                EXCEPT !.is_capture = md.capture]
                IN  BothOriginsHeld(game, md)
                    => \A res \in validate_move(md, game, game.turn) :
                           \/ res.kind = "move" /\ res.move.origin = near.origin
                           \/ res.kind = "none" /\ ~is_legal_move(near, game)

\* C27 witness: with white pawns on e2 and e3, e4 has been played by the
\* pawn from e3; the pawn on e2 has not moved.
C27_Witness ==
    /\ last.outcome = "accepted"
    /\ last.token = <<"e", "4">>
    /\ last.move.origin = <<5, 3>>
    /\ last.move.destination = <<5, 4>>
    /\ Len(seen) = 2
    /\ game.board.squares[<<5, 2>>] = Piece("p", "white")
    /\ game.board.squares[<<5, 3>>] = NoPiece
    /\ game.board.squares[<<5, 4>>] = Piece("p", "white")

\* what the validations of a token's grammars call for: the move when
\* exactly one of them gave a legal Move, the ambiguous-move failure when
\* none did and one gave an ambiguity set, the could-not-validate failure
\* otherwise
CalledFor(results) ==
    LET moves == {i \in DOMAIN results : results[i].kind = "move"}
    IN  IF Cardinality(moves) = 1 THEN "accepted"
        ELSE IF moves = {} /\ \E i \in DOMAIN results : results[i].kind = "conflict"
        THEN "ambiguous"
        ELSE "unvalidated"

\* C28: for a token that matches more than one move grammar,
\* process_player_move accepts the move when exactly one candidate
\* validates to a legal Move, raises the ambiguous-move failure when no
\* candidate validates and at least one returned an ambiguity set, and
\* raises the could-not-validate failure in every other case.
C28_SeveralGrammars ==
    pc = "move" =>
        \A token \in Starts[start].tokens :
            Len(parse_move(token)) > 1
                => \A r \in process_player_move(game, token) :
                       \E results \in ValidateAll(parse_move(token), game, game.turn) :
                           r.outcome = CalledFor(results)

\* the half-moves a game has on record
HalfMoves(g) ==
    Cardinality({<<i, c>> \in (DOMAIN g.move_history) \X COLOURS :
                    c \in DOMAIN g.move_history[i]})

\* undo(k, c) has just run on last.before, for a target k from the first
\* recorded fullmove up to, not including, the current one (target 0, the
\* restart, apart), in a game whose recorded start had white to move
UndoInsideCalled ==
    /\ UndoCalled
    /\ pc = "check" \/ UndoRaised(last)
    /\ UndoTarget # 0
    /\ UndoTarget >= FirstRecordedFullmove(last.before[1])
    /\ UndoTarget < last.before[1].fullmoves
    /\ seen[1].turn = "white"

\* C29: for every target k with first recorded fullmove <= k < current
\* fullmoves and every colour c, undo(k, c) returns the state reached by
\* replaying from the recorded starting position the first k full moves,
\* plus white's next move when c is black: fullmoves = k, turn = c, and
\* strictly fewer half-moves on record than the state it was called on.
C29_UndoReplaysPrefix ==
    UndoInsideCalled =>
        /\ ~UndoRaised(last)
        /\ engine.checkpoint # <<>>
        /\ LET before == last.before[1]
               played == engine.checkpoint_seen
               plies == 2 * (UndoTarget - FirstRecordedFullmove(before))
                        + (IF last.colour = "black" THEN 1 ELSE 0)
           IN  /\ Position(game) = played[1 + plies]
               /\ game.fullmoves = UndoTarget
               /\ game.turn = last.colour
               /\ HalfMoves(game) = plies
               /\ HalfMoves(game) < HalfMoves(before)

\* ---------------------------------------------------------------------
\* C30: the revert buffer is single-level.  After two successive undo or
\* restart operations with no revert in between, a revert restores the game
\* that existed immediately before the second of them and leaves the buffer
\* empty (the earlier snapshot is gone); a revert that follows a revert
\* fails and changes nothing.
RevertCalled == pc = "move" /\ last'.command = "revert"

RevertsSecondUndo ==
    (RevertCalled /\ last.streak >= 2)
        => /\ last'.outcome = "reverted"
           /\ game' = last.before[1]
           /\ engine'.checkpoint = <<>>

SecondRevertFails ==
    (RevertCalled /\ last.command = "revert")
        => /\ last'.outcome = "Could not revert"
           /\ game' = game
           /\ engine' = engine

C30_SingleLevelRevert == [][RevertsSecondUndo /\ SecondRevertFails]_vars

\* ---------------------------------------------------------------------
\* C31: speculative probes do not leak.  The legal-move search of
\* check_if_end, every probe of is_legal_move on a move of the search
\* (legal or not), an undo (whose snapshot is the game it was called on)
\* and a refused token leave the board, the king squares, the en-passant
\* target, the turn and the castling rights of the GameState they are
\* called on as they were.
Live(g) ==
    <<g.board.squares, g.board.white_king_pos, g.board.black_king_pos,
      g.board.en_passant_target, g.turn, g.can_castle>>

SearchRan == pc = "check" /\ pc' = "move"

UndoRan == pc = "move" /\ last'.command \in {"undo", "restart"}

ProbesLeaveCaller ==
    \A move \in SearchedMoves(game) : Live(CallerAfterProbe(move, game)) = Live(game)

FenField(fen, i) == Split(fen)[i]

C32_StartOfFullmove ==
    \A k \in DOMAIN game.position_history :
        FenField(game.position_history[k], 2) = <<"w">>

\* C32 (amended): entry 0 of position_history is the notation the game was
\* loaded from.  An accepted white half-move made with fullmoves = f stores
\* under f + 1 the notation generated right after it (Black to move, the
\* fullmove field still f) and leaves the other entries alone; an accepted
\* black half-move stores nothing.
WhiteMoved == MoveHandled /\ last'.outcome = "accepted" /\ game.turn = "white"

BlackMoved == MoveHandled /\ last'.outcome = "accepted" /\ game.turn = "black"

C32_PositionAfterWhiteMove ==
    [][/\ (pc # "failed" /\ 0 \in DOMAIN game.position_history)
            => game.position_history[0] = Starts[start].fen
       /\ WhiteMoved =>
            /\ game'.position_history =
                  ((game.fullmoves + 1) :> generate_fen(game')) @@ game.position_history
            /\ FenField(game'.position_history[game.fullmoves + 1], 2) = <<"b">>
            /\ StrToInt(FenField(game'.position_history[game.fullmoves + 1], 6))
                  = game.fullmoves
       /\ BlackMoved => game'.position_history = game.position_history]_vars

\* both colours have moved and the history holds the start and a later entry
C32_Witness ==
    /\ last.command = "move"
    /\ last.outcome = "accepted"
    /\ game.turn = "white"
    /\ 0 \in DOMAIN game.position_history
    /\ game.fullmoves \in DOMAIN game.position_history
    /\ game.fullmoves > 0

\* ---------------------------------------------------------------------
\* C33: castling is accepted only with a rook of the mover's colour on the
\* corner of the side castled to; afterwards that rook stands on the f- or
\* d-file square of the back rank, the corner is empty, and apart from the
\* king no other piece has been relocated.
CastledCorner(move) == RookOrigin(move, move.origin[2])

CastledRookSquare(move) == RookDestination(move, move.origin[2])

C33_CastlingNeedsRook ==
    [][CastlingAccepted =>
          LET move == last'.move
              rook == Piece("R", game.turn)
          IN  /\ game.board.squares[CastledCorner(move)] = rook
              /\ game'.board.squares[CastledRookSquare(move)] = rook
              /\ game'.board.squares[CastledCorner(move)] = NoPiece
              /\ \A sq \in Squares \ {move.origin, move.destination,
                                      CastledCorner(move), CastledRookSquare(move)} :
                     game'.board.squares[sq] = game.board.squares[sq]]_vars

\* ---------------------------------------------------------------------
\* C34: kings are never captured.  In every state reached from the standard
\* initial position through accepted moves the board holds exactly one white
\* king and exactly one black king.
FromInitialPosition == Starts[start].fen = FEN_INITIAL /\ pc # "failed"

C34_KingsNeverCaptured ==
    FromInitialPosition =>
        \A colour \in COLOURS :
            Cardinality(KingSquares(game.board.squares, colour)) = 1

\* ---------------------------------------------------------------------
\* C35: replay round trip.  For a state reached from the recorded starting
\* position by accepted moves, a fresh GameState decoded from that position
\* and given generate_pgn() of the state through load_pgn has the same
\* board, turn, castling rights, en-passant target, clocks and move history.
Replayed(g) ==
    <<g.board.squares, g.turn, g.can_castle, g.board.en_passant_target,
      g.halfmove_clock, g.fullmoves, g.move_history>>

PlayedFromStart ==
    /\ pc = "move"
    /\ commands = 0
    /\ game.move_history # <<>>

C35_ReplayRoundTrip ==
    PlayedFromStart =>
        \A replayed \in load_pgn(LoadFen(NewGameState, Starts[start].fen).game,
                                 generate_pgn(game, 0)) :
            Replayed(replayed) = Replayed(game)

\* ---------------------------------------------------------------------
\* C36: the castling rights of a freshly decoded position are exactly the
\* letters of the castling field; when the field is '-' all four rights are
\* false and generate_fen writes '-' again.
Decoded == last.command = "GameState" /\ pc = "move" /\ Starts[start].pgn = <<>>

C36_CastlingFieldDecoded ==
    Decoded =>
        LET castling == FenField(Starts[start].fen, 3)
        IN  /\ \A key \in CastleKeys :
                  game.can_castle[key] = Contains(castling, CastleLetter(key))
            /\ castling = <<"-">> => FenField(generate_fen(game), 3) = <<"-">>

\* ---------------------------------------------------------------------
\* C37: turn and move numbering.  An accepted move hands the turn to the
\* other colour, a refused token leaves turn, fullmoves and move_history as
\* they were; fullmoves grows by exactly 1 with an accepted black move and
\* not at all with a white one; a white move opens a new entry of
\* move_history and a black move fills the black half of the last entry (or
\* opens the first entry); an entry holds a black half exactly when black
\* has played that full move.
HistoryPrefixKept ==
    \A i \in 1 .. Len(game.move_history) - 1 :
        game'.move_history[i] = game.move_history[i]

WhiteHalfRecorded ==
    /\ Len(game'.move_history) = Len(game.move_history) + 1
    /\ DOMAIN game'.move_history[Len(game'.move_history)] = {"white"}
    /\ SubSeq(game'.move_history, 1, Len(game.move_history)) = game.move_history
    /\ game'.fullmoves = game.fullmoves

BlackHalfRecorded ==
    /\ Len(game'.move_history) = (IF game.move_history = <<>> THEN 1
                                  ELSE Len(game.move_history))
    /\ "black" \in DOMAIN game'.move_history[Len(game'.move_history)]
    /\ HistoryPrefixKept
    /\ game.move_history # <<>> =>
          \A c \in DOMAIN game.move_history[Len(game.move_history)] \ {"black"} :
              game'.move_history[Len(game.move_history)][c]
                  = game.move_history[Len(game.move_history)][c]
    /\ game'.fullmoves = game.fullmoves + 1

BlackHalvesPlayed ==
    \A i \in 1 .. Len(game.move_history) :
        ("black" \in DOMAIN game.move_history[i])
            <=> (i < Len(game.move_history) \/ game.turn = "white")

C37_TurnAndNumbering ==
    [][/\ BlackHalvesPlayed
       /\ MoveHandled =>
            IF last'.outcome = "accepted"
            THEN /\ game'.turn \in COLOURS \ {game.turn}
                 /\ IF game.turn = "white" THEN WhiteHalfRecorded
                    ELSE BlackHalfRecorded
            ELSE /\ game'.turn = game.turn
                 /\ game'.fullmoves = game.fullmoves
                 /\ game'.move_history = game.move_history]_vars

\* black has just completed the second recorded full move
C37_Witness ==
    /\ last.command = "move"
    /\ last.outcome = "accepted"
    /\ game.turn = "white"
    /\ Len(game.move_history) >= 2
    /\ DOMAIN game.move_history[Len(game.move_history)] = {"white", "black"}

\* ---------------------------------------------------------------------
\* C38: once the game has ended no further move is applied.  A token handed
\* to process_player_move on a game whose is_end is set, and the rest of
\* the loop body after it, leave the board, the turn, the histories and the
\* clocks as they were, and is_end, end_state and winner keep their values.
Ended(g) ==
    <<g.board, g.turn, g.move_history, g.position_history, g.position_count,
      g.halfmove_clock, g.fullmoves, g.is_end, g.end_state, g.winner>>

C38_NoMoveAfterEnd ==
    [][(game.is_end /\ (MoveHandled \/ SearchRan)) => Ended(game') = Ended(game)]_vars

\* ---------------------------------------------------------------------
\* C39: castling rights are monotone.  Within one game (moves and the
\* end-of-game evaluation; no undo, restart or reload) a castling right that
\* is false stays false, whatever stands on the king and rook home squares.
C39_RightsMonotone ==
    [][(MoveHandled \/ SearchRan) =>
          \A key \in CastleKeys : ~game.can_castle[key] => ~game'.can_castle[key]]_vars

\* a white rook has just left a1 while the king stands on e1 and the
\* queenside right, false from the start, is still false
C39_Witness ==
    /\ last.command = "move"
    /\ last.outcome = "accepted"
    /\ last.move.piece = Piece("R", "white")
    /\ last.move.origin = RookHome("white", "queenside")
    /\ game.board.squares[<<5, 1>>] = Piece("K", "white")
    /\ ~game.can_castle["white_queenside"]

\* ---------------------------------------------------------------------
\* C40: no pawn ever rests on rank 1 or rank 8.  In every state reached
\* from the standard initial position through accepted moves no pawn stands
\* on a last rank; an accepted pawn move to the last rank leaves a knight,
\* bishop, rook or queen of the mover's colour on the destination and the
\* origin empty; a token moving a pawn to the last rank without naming a
\* promotion piece makes no pawn move and leaves the board as it was.
PawnsOnLastRank(squares) ==
    {sq \in Squares : sq[2] \in {1, 8} /\ squares[sq].type = "p"}

\* (a capture written with the file b reads as a bishop's move, the grammars
\* being matched without regard to case)
LastRankPawnToken(token) ==
    LET b == TokenBody(token)
    IN  \/ Len(b) = 2 /\ IsFileChar(b[1]) /\ b[2] \in {"1", "8"}
        \/ /\ Len(b) = 4 /\ IsFileChar(b[1]) /\ b[1] \in {"a", "c", "d", "e", "f", "g", "h"}
           /\ b[2] = "x" /\ IsFileChar(b[3]) /\ b[4] \in {"1", "8"}

C40_NoPawnOnLastRank ==
    [][FromInitialPosition =>
          /\ PawnsOnLastRank(game.board.squares) = {}
          /\ (Accepted /\ game.board.squares[last'.move.origin].type = "p"
                /\ last'.move.destination[2] \in {1, 8})
                => /\ game'.board.squares[last'.move.destination]
                          \in {Piece(type, game.turn) : type \in {"N", "B", "R", "Q"}}
                   /\ game'.board.squares[last'.move.origin] = NoPiece
          /\ (MoveHandled /\ LastRankPawnToken(last'.token))
                => /\ last'.outcome # "accepted"
                   /\ game'.board = game.board]_vars

\* a pawn has just promoted to a knight on g8 after the same capture without
\* a promotion piece was refused
C40_Witness ==
    /\ FromInitialPosition
    /\ last.command = "move"
    /\ last.outcome = "accepted"
    /\ last.move.special = "promotion"
    /\ game.board.squares[last.move.destination] = Piece("N", "white")
    /\ game.board.squares[last.move.origin] = NoPiece

====
